---- MODULE Spec2Model ----
(***************************************************************************)
(* Model of scripts/update_bill_status.py: the ILGA bill-status updater.   *)
(*                                                                         *)
(* Representation of Python values.  Every value is a sequence of strings. *)
(* A Python str is the sequence of its words ("Passed House" is            *)
(* <<"Passed", "House">>, "" is <<>>); words are separated by one blank,   *)
(* and a run of leading or trailing white space is the word WS.            *)
(* `x in s` on strings is a contiguous-subsequence test on words.  None,   *)
(* True, False, numbers and an absent dictionary key are one-word          *)
(* sequences whose word is outside the vocabulary of texts.                *)
(***************************************************************************)
EXTENDS Integers, Sequences, FiniteSets, TLC

\* ------------------------------------------------------------------------
\* Bounds of the model
\* ------------------------------------------------------------------------
MaxFrags == 2      \* fragments concatenated into a last-action text
MaxHist == 2       \* entries of an action history given to map_stage
MaxTime == 2       \* seconds the wall clock can show
MaxSyn == 4        \* child elements of a <synopsis> given to get_amendments
MaxActs == 3       \* child elements of an <actions> given to get_amendments

\* ------------------------------------------------------------------------
\* Python values
\* ------------------------------------------------------------------------
None == <<"<None>">>
Missing == <<"<missing>">>
True == <<"<True>">>
False == <<"<False>">>
WS == " "
EmptyStr == <<>>

Num(n) == <<"<num>", ToString(n)>>
NumList(ns) == <<"<list>">> \o [i \in 1..Len(ns) |-> ToString(ns[i])]

\* bool(v) of Python: None, "", False are falsy
Truthy(v) == v \notin {None, EmptyStr, False}

\* a or b
Or(a, b) == IF Truthy(a) THEN a ELSE b

\* ------------------------------------------------------------------------
\* str methods
\* ------------------------------------------------------------------------
\* words that have an upper-case letter, with their lower-case form
CaseTable ==
    << <<"approved", "Approved", "APPROVED">>, <<"by", "By", "BY">>,
       <<"governor", "Governor", "GOVERNOR">>, <<"public", "Public", "PUBLIC">>,
       <<"act", "Act", "ACT">>, <<"sent", "Sent", "SENT">>,
       <<"to", "To", "TO">>, <<"the", "The", "THE">>,
       <<"passed", "Passed", "PASSED">>, <<"both", "Both", "BOTH">>,
       <<"enrolled", "Enrolled", "ENROLLED">>, <<"senate", "Senate", "SENATE">>,
       <<"house", "House", "HOUSE">>, <<"vetoed", "Vetoed", "VETOED">>,
       <<"failed", "Failed", "FAILED">>, <<"did", "Did", "DID">>,
       <<"not", "Not", "NOT">>, <<"pass", "Pass", "PASS">>,
       <<"tabled", "Tabled", "TABLED">>, <<"withdrawn", "Withdrawn", "WITHDRAWN">>,
       <<"arrive", "Arrive", "ARRIVE">>, <<"in", "In", "IN">>,
       <<"referred", "Referred", "REFERRED">>, <<"rules", "Rules", "RULES">>,
       <<"committee", "Committee", "COMMITTEE">>, <<"amendment", "Amendment", "AMENDMENT">>,
       <<"filed", "Filed", "FILED">>, <<"hearing", "Hearing", "HEARING">>,
       <<"replaces", "Replaces", "REPLACES">>, <<"everything", "Everything", "EVERYTHING">>,
       <<"after", "After", "AFTER">>, <<"enacting", "Enacting", "ENACTING">>,
       <<"clause", "Clause", "CLAUSE">>, <<"action", "Action", "ACTION">>,
       <<"statusdate", "StatusDate", "STATUSDATE">> >>

\* the lower-case form of each capitalised or upper-case word
LowerMap ==
    [w \in { CaseTable[i][k] : i \in 1..Len(CaseTable), k \in 2..3 } |->
        CaseTable[CHOOSE i \in 1..Len(CaseTable) : w \in {CaseTable[i][2], CaseTable[i][3]}][1]]

LowerWord(w) == IF w \in DOMAIN LowerMap THEN LowerMap[w] ELSE w

\* s.lower()
Lower(s) == [i \in 1..Len(s) |-> LowerWord(s[i])]

RECURSIVE LStrip(_)
LStrip(s) == IF s # <<>> /\ Head(s) = WS THEN LStrip(Tail(s)) ELSE s

RECURSIVE RStrip(_)
RStrip(s) == IF s # <<>> /\ s[Len(s)] = WS THEN RStrip(SubSeq(s, 1, Len(s) - 1)) ELSE s

\* s.strip()
Strip(s) == RStrip(LStrip(s))

\* sub in s
Contains(s, sub) ==
    \E i \in 0..(Len(s) - Len(sub)) : SubSeq(s, i + 1, i + Len(sub)) = sub

\* s.startswith(prefix)
StartsWith(s, prefix) ==
    Len(s) >= Len(prefix) /\ SubSeq(s, 1, Len(prefix)) = prefix

\* " ".join(parts)
RECURSIVE Join(_)
Join(parts) == IF parts = <<>> THEN <<>> ELSE Head(parts) \o Join(Tail(parts))

\* ------------------------------------------------------------------------
\* dict
\* ------------------------------------------------------------------------
StaticKeys ==
    { "id", "billNumber", "title", "description", "year", "status", "type",
      "category", "url" }

InferredKeys ==
    { "stage", "primarySponsor", "lastAction", "lastActionDate", "ilgaFetchedAt",
      "stageChangedAt", "nextActionDate", "nextActionType", "lastAmendmentName",
      "lastAmendmentDate", "isShellBill" }

\* keys only a user-added record has
UserKeys == { "userAdded", "notes" }

Keys == StaticKeys \cup InferredKeys \cup UserKeys

\* {}
EmptyDict == [k \in Keys |-> Missing]

\* a dict display: the keys of r, the others absent
Dict(r) == [k \in Keys |-> IF k \in DOMAIN r THEN r[k] ELSE Missing]

\* d.get(k)
Get(d, k) == IF d[k] = Missing THEN None ELSE d[k]

\* d.get(k, default)
GetOr(d, k, default) == IF d[k] = Missing THEN default ELSE d[k]

\* {**a, **b}
Merge(a, b) == [k \in Keys |-> IF b[k] # Missing THEN b[k] ELSE a[k]]

\* ------------------------------------------------------------------------
\* The catalogue and the locator
\* ------------------------------------------------------------------------
\* the first two entries of BILLS: a House bill and a Senate bill
BILLS ==
    << Dict([id |-> Num(1), billNumber |-> <<"HB", "3466">>,
             title |-> <<"Affordable Housing Special Assessment Program (AHSAP)">>,
             description |-> <<"Amends property tax code. Clarifies needed property improvements to remain in special assessment program, allows property to remain in program even if county opts out. Details IHDA's responsibility in calculating/sharing minimum per sq. ft. expenditure requirements for rehabilitation to qualify. Extends AHSAP to 2037.">>,
             year |-> NumList(<<2025, 2026>>),
             status |-> <<"Not passed into law">>,
             type |-> <<"Endorsed">>,
             category |-> <<"Property Taxes">>,
             url |-> <<"https://www.ilga.gov/Legislation/BillStatus?GAID=18&DocNum=3466&DocTypeID=HB&LegId=162109&SessionID=114">>]),
       Dict([id |-> Num(2), billNumber |-> <<"SB", "1911">>,
             title |-> <<"Affordable Housing Special Assessment Program (Senate)">>,
             description |-> <<"Senate companion to HB3466. Amends property tax code. Clarifies needed property improvements to remain in special assessment program, allows property to remain in program even if county opts out. Extends AHSAP to 2037. Governor approved 12/12/25.">>,
             year |-> NumList(<<2025>>),
             status |-> <<"Passed into law">>,
             type |-> <<"Endorsed">>,
             category |-> <<"Property Taxes">>,
             url |-> <<"https://www.ilga.gov/Legislation/BillStatus?GAID=18&DocNum=1911&DocTypeID=SB&LegId=161199&SessionID=114">>]) >>

\* the exception parse_bill_number raises
ValueError == <<"<ValueError>">>

\* [A-Z]+ and \d+ on the words of a bill number
UpperAlpha == { "HB", "SB", "HJR", "SJR", "HR", "SR" }
Digits == { "0001", "62", "1911", "3466", "4377" }

\* mutant: the letters are accepted in either case
parse_bill_number_lenient(bill_number) ==
    IF Len(bill_number) = 2 /\ bill_number[1] \in UpperAlpha \cup { "hb", "sb" }
       /\ bill_number[2] \in Digits
    THEN << bill_number[1], bill_number[2] >>
    ELSE ValueError

\* a bill number is the word of its letters followed by the word of its digits
parse_bill_number(bill_number) ==
    IF Len(bill_number) = 2 /\ bill_number[1] \in UpperAlpha /\ bill_number[2] \in Digits
    THEN << bill_number[1], bill_number[2] >>
    ELSE ValueError

ILGA_FTP_BASE == "https://www.ilga.gov/ftp/legislation/104/BillStatus/XML/10400"

\* doc_num.zfill(4)
RECURSIVE ZFill4(_)
ZFill4(digits) == IF Len(digits) >= 4 THEN digits ELSE ZFill4("0" \o digits)

get_xml_url(bill_number) ==
    LET parsed == parse_bill_number(bill_number)
    IN  IF parsed = ValueError THEN ValueError
        ELSE << ILGA_FTP_BASE \o parsed[1] \o ZFill4(parsed[2]) \o ".xml" >>

\* ------------------------------------------------------------------------
\* The status document
\* ------------------------------------------------------------------------
\* An element that is absent is Missing; the text of an element is None or
\* a string.  A section keeps its children: the fields it is searched for,
\* or the sequence of its child elements [tag, text].
NoLastAction == [present |-> FALSE, action |-> Missing, statusdate |-> Missing]
NoSponsor == [present |-> FALSE, sponsors |-> Missing]
NoChildren == [present |-> FALSE, children |-> <<>>]
NoNextAction == [present |-> FALSE, statusdate |-> Missing, action |-> Missing]

Elem(tag, text) == [tag |-> tag, text |-> text]

\* mutant: an absent <lastaction> gives None for the text and the date
get_last_action_fields_none(root) ==
    LET la_el == root.lastaction
    IN  IF ~la_el.present THEN << None, None >>
        ELSE << IF la_el.action # Missing THEN Strip(Or(la_el.action, EmptyStr)) ELSE EmptyStr,
                IF la_el.statusdate # Missing THEN Strip(Or(la_el.statusdate, EmptyStr))
                ELSE EmptyStr >>

\* get_last_action_fields: <<lastAction, lastActionDate>>
get_last_action_fields(root) ==
    LET la_el == root.lastaction
    IN  IF ~la_el.present THEN << EmptyStr, EmptyStr >>
        ELSE << IF la_el.action # Missing THEN Strip(Or(la_el.action, EmptyStr)) ELSE EmptyStr,
                IF la_el.statusdate # Missing THEN Strip(Or(la_el.statusdate, EmptyStr))
                ELSE EmptyStr >>

\* position i of text holds a separator of re.split(r'-|,|\s+and\s+', text)
IsSeparator(text, i) ==
    \/ text[i] \in { "-", "," }
    \/ text[i] = "and" /\ 1 < i /\ i < Len(text)

\* re.split(...)[0]
FirstPiece(text) ==
    IF \E i \in 1..Len(text) : IsSeparator(text, i)
    THEN LET i == CHOOSE i \in 1..Len(text) :
                      IsSeparator(text, i) /\ \A j \in 1..(i - 1) : ~IsSeparator(text, j)
         IN  SubSeq(text, 1, i - 1)
    ELSE text

get_primary_sponsor(root) ==
    LET sponsor_el == root.sponsor
    IN  IF ~sponsor_el.present THEN EmptyStr
        ELSE IF sponsor_el.sponsors = Missing \/ ~Truthy(sponsor_el.sponsors) THEN EmptyStr
        ELSE Strip(FirstPiece(Strip(sponsor_el.sponsors)))

RECURSIVE ActionTexts(_)
ActionTexts(children) ==
    IF children = <<>> THEN <<>>
    ELSE LET child == Head(children)
         IN  IF LowerWord(child.tag) = "action" /\ Truthy(child.text)
             THEN << Lower(Strip(child.text)) >> \o ActionTexts(Tail(children))
             ELSE ActionTexts(Tail(children))

get_action_texts(root) ==
    IF root.actions.present THEN ActionTexts(root.actions.children) ELSE <<>>

MONTH_MAP ==
    [m \in { "Jan", "Feb", "Mar", "Apr", "May", "Jun", "Jul", "Aug", "Sep", "Oct",
             "Nov", "Dec" } |->
        CASE m = "Jan" -> "1" [] m = "Feb" -> "2" [] m = "Mar" -> "3" [] m = "Apr" -> "4"
          [] m = "May" -> "5" [] m = "Jun" -> "6" [] m = "Jul" -> "7" [] m = "Aug" -> "8"
          [] m = "Sep" -> "9" [] m = "Oct" -> "10" [] m = "Nov" -> "11" [] m = "Dec" -> "12"]

\* \d{1,2} and \d{4} on words
DayWords == { "5", "12", "28" }
YearWords == { "2025", "2026" }

\* the month, day, year pattern matches at word i of raw
DateMatchAt(raw, i) ==
    /\ i + 2 <= Len(raw)
    /\ raw[i] \in DOMAIN MONTH_MAP
    /\ raw[i + 1] \in DayWords
    /\ raw[i + 2] \in YearWords

\* get_next_action: <<date_str, action_type_str>>
get_next_action(root) ==
    LET na == root.nextaction
        ch == root.committeehearing
        raw == Strip(ch)
    IN  IF na.present /\ na.statusdate # Missing /\ Truthy(na.statusdate)
        THEN << Strip(na.statusdate),
                IF na.action # Missing THEN Strip(Or(na.action, EmptyStr)) ELSE EmptyStr >>
        ELSE IF ch # Missing /\ Truthy(ch) /\ \E i \in 1..Len(raw) : DateMatchAt(raw, i)
        THEN LET i == CHOOSE i \in 1..Len(raw) :
                          DateMatchAt(raw, i) /\ \A j \in 1..(i - 1) : ~DateMatchAt(raw, j)
             IN  << << MONTH_MAP[raw[i]] \o "/" \o raw[i + 1] \o "/" \o raw[i + 2] >>,
                    Or(Strip(SubSeq(raw, 1, i - 1)), EmptyStr) >>
        ELSE << EmptyStr, EmptyStr >>

\* mutant: the first date marker is kept, later ones are ignored
RECURSIVE FindDate_first_date(_, _, _)
FindDate_first_date(children, amendment_name, current_date) ==
    IF children = <<>> THEN None
    ELSE LET child == Head(children)
         IN  IF child.tag = "statusdate"
             THEN FindDate_first_date(Tail(children), amendment_name,
                                      IF current_date = None
                                      THEN Strip(Or(child.text, EmptyStr)) ELSE current_date)
             ELSE IF child.tag = "action" /\ Truthy(amendment_name)
                     /\ Contains(Or(child.text, EmptyStr), Strip(amendment_name))
             THEN current_date
             ELSE FindDate_first_date(Tail(children), amendment_name, current_date)

\* _find_amendment_date: the loop over the children of <actions>
RECURSIVE FindDate(_, _, _)
FindDate(children, amendment_name, current_date) ==
    IF children = <<>> THEN None
    ELSE LET child == Head(children)
         IN  IF child.tag = "statusdate"
             THEN FindDate(Tail(children), amendment_name, Strip(Or(child.text, EmptyStr)))
             ELSE IF child.tag = "action" /\ Truthy(amendment_name)
                     /\ Contains(Or(child.text, EmptyStr), Strip(amendment_name))
             THEN current_date
             ELSE FindDate(Tail(children), amendment_name, current_date)

find_amendment_date(root, amendment_name) ==
    IF ~root.actions.present THEN None
    ELSE FindDate(root.actions.children, amendment_name, None)

ShellMarker == <<"Replaces", "everything", "after", "the", "enacting", "clause">>

\* mutant: every body is examined, with or without a pending title
RECURSIVE SynopsisScan_any_body(_, _)
SynopsisScan_any_body(children, st) ==
    IF children = <<>> THEN st
    ELSE LET child == Head(children)
             t == Strip(Or(child.text, EmptyStr))
         IN  IF child.tag = "synopsistitle"
             THEN SynopsisScan_any_body(Tail(children),
                                        IF Truthy(t) THEN [st EXCEPT !.current_title = t]
                                        ELSE st)
             ELSE IF child.tag = "SynopsisText"
             THEN SynopsisScan_any_body(Tail(children),
                      [current_title |-> None,
                       last_name |-> IF Truthy(st.current_title) THEN st.current_title
                                     ELSE st.last_name,
                       is_shell |-> st.is_shell \/ StartsWith(t, ShellMarker)])
             ELSE SynopsisScan_any_body(Tail(children), st)

\* mutant: the first name recorded is kept
RECURSIVE SynopsisScan_first_name(_, _)
SynopsisScan_first_name(children, st) ==
    IF children = <<>> THEN st
    ELSE LET child == Head(children)
             t == Strip(Or(child.text, EmptyStr))
         IN  IF child.tag = "synopsistitle"
             THEN SynopsisScan_first_name(Tail(children),
                                          IF Truthy(t) THEN [st EXCEPT !.current_title = t]
                                          ELSE st)
             ELSE IF child.tag = "SynopsisText" /\ Truthy(st.current_title)
             THEN SynopsisScan_first_name(Tail(children),
                      [current_title |-> None,
                       last_name |-> IF Truthy(st.last_name) THEN st.last_name
                                     ELSE st.current_title,
                       is_shell |-> st.is_shell \/ StartsWith(t, ShellMarker)])
             ELSE SynopsisScan_first_name(Tail(children), st)

\* get_amendments: the loop over the children of <synopsis>;
\* st = [current_title, last_name, is_shell]
RECURSIVE SynopsisScan(_, _)
SynopsisScan(children, st) ==
    IF children = <<>> THEN st
    ELSE LET child == Head(children)
             t == Strip(Or(child.text, EmptyStr))
         IN  IF child.tag = "synopsistitle"
             THEN SynopsisScan(Tail(children),
                               IF Truthy(t) THEN [st EXCEPT !.current_title = t] ELSE st)
             ELSE IF child.tag = "SynopsisText" /\ Truthy(st.current_title)
             THEN SynopsisScan(Tail(children),
                               [current_title |-> None,
                                last_name |-> st.current_title,
                                is_shell |-> st.is_shell \/ StartsWith(t, ShellMarker)])
             ELSE SynopsisScan(Tail(children), st)

\* get_amendments: <<last_amendment_name, last_amendment_date, is_shell_bill>>
get_amendments(root) ==
    LET init == [current_title |-> None, last_name |-> None, is_shell |-> FALSE]
        st == IF root.synopsis.present THEN SynopsisScan(root.synopsis.children, init)
              ELSE init
        last_date == IF Truthy(st.last_name) THEN find_amendment_date(root, st.last_name)
                     ELSE None
    IN  << Or(st.last_name, None), Or(last_date, None),
           IF st.is_shell THEN True ELSE False >>

\* ------------------------------------------------------------------------
\* map_stage
\* ------------------------------------------------------------------------
SignedIntoLaw == <<"Signed", "into", "Law">>
AwaitingGovernorSignature == <<"Awaiting", "Governor", "Signature">>
Enrolled == <<"Enrolled">>
PassedSenate == <<"Passed", "Senate">>
PassedHouse == <<"Passed", "House">>
Failed == <<"Failed">>
InSenateCommittee == <<"In", "Senate", "Committee">>
InHouseCommittee == <<"In", "House", "Committee">>
Unknown == <<"Unknown">>

FailedKeywords ==
    { <<"vetoed">>, <<"failed">>, <<"did", "not", "pass">>, <<"tabled">>, <<"withdrawn">> }

\* mutant: rule 6 is tried before rules 1-5
map_stage_last_action_failed_first(la) ==
    IF \E k \in FailedKeywords : Contains(la, k) THEN Failed
    ELSE IF Contains(la, <<"approved", "by", "governor">>) \/ Contains(la, <<"public", "act">>)
    THEN SignedIntoLaw
    ELSE IF Contains(la, <<"sent", "to", "the", "governor">>)
            \/ Contains(la, <<"to", "the", "governor">>)
    THEN AwaitingGovernorSignature
    ELSE IF Contains(la, <<"passed", "both">>) \/ Contains(la, <<"enrolled">>)
    THEN Enrolled
    ELSE IF Contains(la, <<"passed", "senate">>) THEN PassedSenate
    ELSE IF Contains(la, <<"passed", "house">>) THEN PassedHouse
    ELSE None

\* the six rules on the lower-cased last action; None when no rule matches
map_stage_last_action(la) ==
    IF Contains(la, <<"approved", "by", "governor">>) \/ Contains(la, <<"public", "act">>)
    THEN SignedIntoLaw
    ELSE IF Contains(la, <<"sent", "to", "the", "governor">>)
            \/ Contains(la, <<"to", "the", "governor">>)
    THEN AwaitingGovernorSignature
    ELSE IF Contains(la, <<"passed", "both">>) \/ Contains(la, <<"enrolled">>)
    THEN Enrolled
    ELSE IF Contains(la, <<"passed", "senate">>) THEN PassedSenate
    ELSE IF Contains(la, <<"passed", "house">>) THEN PassedHouse
    ELSE IF \E k \in FailedKeywords : Contains(la, k) THEN Failed
    ELSE None

\* mutant: no final else, only the two chamber prefixes are handled
map_stage_history_no_else(action_history, doc_type) ==
    LET history == Join(action_history)
    IN  IF Contains(history, <<"passed", "house">>)
           \/ Contains(history, <<"arrive", "in", "senate">>)
        THEN InSenateCommittee
        ELSE IF Contains(history, <<"passed", "senate">>)
                \/ Contains(history, <<"arrive", "in", "house">>)
        THEN InHouseCommittee
        ELSE IF doc_type = <<"HB">> THEN InHouseCommittee
        ELSE IF doc_type = <<"SB">> THEN InSenateCommittee
        ELSE None

\* mutant: the crossing to the House is looked for before the crossing to the Senate
map_stage_history_house_first(action_history, doc_type) ==
    LET history == Join(action_history)
    IN  IF Contains(history, <<"passed", "senate">>)
           \/ Contains(history, <<"arrive", "in", "house">>)
        THEN InHouseCommittee
        ELSE IF Contains(history, <<"passed", "house">>)
                \/ Contains(history, <<"arrive", "in", "senate">>)
        THEN InSenateCommittee
        ELSE IF doc_type = <<"HB">> THEN InHouseCommittee ELSE InSenateCommittee

\* mutant: every prefix that begins with H counts as a House prefix
map_stage_history_h_prefix(action_history, doc_type) ==
    LET history == Join(action_history)
    IN  IF Contains(history, <<"passed", "house">>)
           \/ Contains(history, <<"arrive", "in", "senate">>)
        THEN InSenateCommittee
        ELSE IF Contains(history, <<"passed", "senate">>)
                \/ Contains(history, <<"arrive", "in", "house">>)
        THEN InHouseCommittee
        ELSE IF doc_type \in { <<"HB">>, <<"HJR">>, <<"HR">> } THEN InHouseCommittee
        ELSE InSenateCommittee

\* the inference from the joined action history and the document type
map_stage_history(action_history, doc_type) ==
    LET history == Join(action_history)
    IN  IF Contains(history, <<"passed", "house">>)
           \/ Contains(history, <<"arrive", "in", "senate">>)
        THEN InSenateCommittee
        ELSE IF Contains(history, <<"passed", "senate">>)
                \/ Contains(history, <<"arrive", "in", "house">>)
        THEN InHouseCommittee
        ELSE IF doc_type = <<"HB">> THEN InHouseCommittee ELSE InSenateCommittee

\* mutant: a chamber crossing in the history is looked at before the last action
map_stage_history_first(last_action, action_history, doc_type) ==
    LET la == Lower(last_action)
        history == Join(action_history)
    IN  IF Contains(history, <<"arrive", "in", "house">>)
           /\ map_stage_last_action(la) \notin {None, Failed}
        THEN InHouseCommittee
        ELSE IF map_stage_last_action(la) # None THEN map_stage_last_action(la)
        ELSE map_stage_history(action_history, doc_type)

map_stage(last_action, action_history, doc_type) ==
    LET la == Lower(last_action)
    IN  IF map_stage_last_action(la) # None THEN map_stage_last_action(la)
        ELSE map_stage_history(action_history, doc_type)

\* ------------------------------------------------------------------------
\* Reconciliation
\* ------------------------------------------------------------------------
\* what fetch_xml returns: None, bytes on which ET.fromstring raises
\* ParseError, bytes on which it raises another exception (an XML declaration
\* that names an encoding the parser does not know), or a document
NoBytes == [kind |-> "None", root |-> <<>>]
Garbage == [kind |-> "garbage", root |-> <<>>]
Undecodable == [kind |-> "undecodable", root |-> <<>>]
Xml(root) == [kind |-> "xml", root |-> root]

\* mutant: the previous value is always carried forward
stage_changed_at_carry(new_stage, prev_stage, prev_stage_changed_at, fetched_at) ==
    Or(prev_stage_changed_at, fetched_at)

\* mutant: the timestamp is refreshed on every successful fetch
stage_changed_at_now(new_stage, prev_stage, prev_stage_changed_at, fetched_at) ==
    fetched_at

\* stageChangedAt: update only if stage has changed
stage_changed_at(new_stage, prev_stage, prev_stage_changed_at, fetched_at) ==
    IF new_stage # prev_stage THEN fetched_at
    ELSE Or(prev_stage_changed_at, fetched_at)

\* the result of a call: the value returned, or the exception raised
Return(v) == [raised |-> FALSE, none |-> FALSE, value |-> v]
ReturnNone == [raised |-> FALSE, none |-> TRUE, value |-> EmptyDict]
Raise == [raised |-> TRUE, none |-> FALSE, value |-> EmptyDict]

\* mutant: ParseError is not caught
ilga_fields_from_xml_no_except(xml_bytes, bill_number, prev_stage, prev_stage_changed_at, fetched_at) ==
    IF parse_bill_number(bill_number) = ValueError THEN Raise
    ELSE IF xml_bytes.kind \in { "garbage", "undecodable" } THEN Raise
    ELSE
    LET doc_type == << parse_bill_number(bill_number)[1] >>
        root == xml_bytes.root
        last == get_last_action_fields(root)
        new_stage == map_stage(last[1], get_action_texts(root), doc_type)
        next == get_next_action(root)
        amend == get_amendments(root)
    IN  Return(Dict([stage |-> new_stage,
                     primarySponsor |-> get_primary_sponsor(root),
                     lastAction |-> last[1],
                     lastActionDate |-> last[2],
                     ilgaFetchedAt |-> fetched_at,
                     stageChangedAt |->
                         stage_changed_at(new_stage, prev_stage, prev_stage_changed_at,
                                          fetched_at),
                     nextActionDate |-> Or(next[1], None),
                     nextActionType |-> Or(next[2], None),
                     lastAmendmentName |-> amend[1],
                     lastAmendmentDate |-> amend[2],
                     isShellBill |-> amend[3]]))

ilga_fields_from_xml(xml_bytes, bill_number, prev_stage, prev_stage_changed_at, fetched_at) ==
    IF parse_bill_number(bill_number) = ValueError THEN Raise
    ELSE IF xml_bytes.kind = "garbage" THEN ReturnNone
    ELSE IF xml_bytes.kind = "undecodable" THEN Raise
    ELSE
    LET doc_type == << parse_bill_number(bill_number)[1] >>
        root == xml_bytes.root
        last == get_last_action_fields(root)
        action_history == get_action_texts(root)
        primary_sponsor == get_primary_sponsor(root)
        new_stage == map_stage(last[1], action_history, doc_type)
        next == get_next_action(root)
        amend == get_amendments(root)
    IN  Return(Dict([stage |-> new_stage,
                     primarySponsor |-> primary_sponsor,
                     lastAction |-> last[1],
                     lastActionDate |-> last[2],
                     ilgaFetchedAt |-> fetched_at,
                     stageChangedAt |->
                         stage_changed_at(new_stage, prev_stage, prev_stage_changed_at,
                                          fetched_at),
                     nextActionDate |-> Or(next[1], None),
                     nextActionType |-> Or(next[2], None),
                     lastAmendmentName |-> amend[1],
                     lastAmendmentDate |-> amend[2],
                     isShellBill |-> amend[3]]))

\* mutant: the fallback forgets the previous stage
fetch_failure_record_unknown(bill, prev, fetched_at) ==
    Merge(bill,
          Dict([stage |-> Unknown,
                primarySponsor |-> GetOr(prev, "primarySponsor", EmptyStr),
                lastAction |-> GetOr(prev, "lastAction", EmptyStr),
                lastActionDate |-> GetOr(prev, "lastActionDate", EmptyStr),
                ilgaFetchedAt |-> GetOr(prev, "ilgaFetchedAt", EmptyStr),
                stageChangedAt |-> GetOr(prev, "stageChangedAt", EmptyStr),
                nextActionDate |-> Get(prev, "nextActionDate"),
                nextActionType |-> Get(prev, "nextActionType"),
                lastAmendmentName |-> Get(prev, "lastAmendmentName"),
                lastAmendmentDate |-> Get(prev, "lastAmendmentDate"),
                isShellBill |-> GetOr(prev, "isShellBill", False)]))

\* mutant: the fallback has no default for the stage
fetch_failure_record_no_default(bill, prev, fetched_at) ==
    Merge(bill,
          Dict([stage |-> Get(prev, "stage"),
                primarySponsor |-> GetOr(prev, "primarySponsor", EmptyStr),
                lastAction |-> GetOr(prev, "lastAction", EmptyStr),
                lastActionDate |-> GetOr(prev, "lastActionDate", EmptyStr),
                ilgaFetchedAt |-> GetOr(prev, "ilgaFetchedAt", EmptyStr),
                stageChangedAt |-> GetOr(prev, "stageChangedAt", EmptyStr),
                nextActionDate |-> Get(prev, "nextActionDate"),
                nextActionType |-> Get(prev, "nextActionType"),
                lastAmendmentName |-> Get(prev, "lastAmendmentName"),
                lastAmendmentDate |-> Get(prev, "lastAmendmentDate"),
                isShellBill |-> GetOr(prev, "isShellBill", False)]))

\* mutant: the fallback stamps the stage change with the time of the run
fetch_failure_record_restamped(bill, prev, fetched_at) ==
    Merge(bill,
          Dict([stage |-> GetOr(prev, "stage", Unknown),
                primarySponsor |-> GetOr(prev, "primarySponsor", EmptyStr),
                lastAction |-> GetOr(prev, "lastAction", EmptyStr),
                lastActionDate |-> GetOr(prev, "lastActionDate", EmptyStr),
                ilgaFetchedAt |-> GetOr(prev, "ilgaFetchedAt", EmptyStr),
                stageChangedAt |-> fetched_at,
                nextActionDate |-> Get(prev, "nextActionDate"),
                nextActionType |-> Get(prev, "nextActionType"),
                lastAmendmentName |-> Get(prev, "lastAmendmentName"),
                lastAmendmentDate |-> Get(prev, "lastAmendmentDate"),
                isShellBill |-> GetOr(prev, "isShellBill", False)]))

\* the record process_bill returns when fetch_xml returned None
fetch_failure_record(bill, prev, fetched_at) ==
    Merge(bill,
          Dict([stage |-> GetOr(prev, "stage", Unknown),
                primarySponsor |-> GetOr(prev, "primarySponsor", EmptyStr),
                lastAction |-> GetOr(prev, "lastAction", EmptyStr),
                lastActionDate |-> GetOr(prev, "lastActionDate", EmptyStr),
                ilgaFetchedAt |-> GetOr(prev, "ilgaFetchedAt", EmptyStr),
                stageChangedAt |-> GetOr(prev, "stageChangedAt", EmptyStr),
                nextActionDate |-> Get(prev, "nextActionDate"),
                nextActionType |-> Get(prev, "nextActionType"),
                lastAmendmentName |-> Get(prev, "lastAmendmentName"),
                lastAmendmentDate |-> Get(prev, "lastAmendmentDate"),
                isShellBill |-> GetOr(prev, "isShellBill", False)]))

\* mutant: a parse failure counts as a fetch and stamps the record
parse_failure_record_stamped(bill, prev, fetched_at) ==
    Merge(bill,
          Dict([stage |-> GetOr(prev, "stage", Unknown),
                primarySponsor |-> GetOr(prev, "primarySponsor", EmptyStr),
                lastAction |-> GetOr(prev, "lastAction", EmptyStr),
                lastActionDate |-> GetOr(prev, "lastActionDate", EmptyStr),
                ilgaFetchedAt |-> fetched_at,
                stageChangedAt |-> GetOr(prev, "stageChangedAt", EmptyStr),
                nextActionDate |-> Get(prev, "nextActionDate"),
                nextActionType |-> Get(prev, "nextActionType"),
                lastAmendmentName |-> Get(prev, "lastAmendmentName"),
                lastAmendmentDate |-> Get(prev, "lastAmendmentDate"),
                isShellBill |-> GetOr(prev, "isShellBill", False)]))

\* the record process_bill returns when _ilga_fields_from_xml returned None
parse_failure_record(bill, prev, fetched_at) ==
    Merge(bill,
          Dict([stage |-> GetOr(prev, "stage", Unknown),
                primarySponsor |-> GetOr(prev, "primarySponsor", EmptyStr),
                lastAction |-> GetOr(prev, "lastAction", EmptyStr),
                lastActionDate |-> GetOr(prev, "lastActionDate", EmptyStr),
                ilgaFetchedAt |-> GetOr(prev, "ilgaFetchedAt", EmptyStr),
                stageChangedAt |-> GetOr(prev, "stageChangedAt", EmptyStr),
                nextActionDate |-> Get(prev, "nextActionDate"),
                nextActionType |-> Get(prev, "nextActionType"),
                lastAmendmentName |-> Get(prev, "lastAmendmentName"),
                lastAmendmentDate |-> Get(prev, "lastAmendmentDate"),
                isShellBill |-> GetOr(prev, "isShellBill", False)]))

\* prev_data.get(bill_number, {})
PrevOf(prev_data, bill_number) ==
    IF bill_number \in DOMAIN prev_data THEN prev_data[bill_number] ELSE EmptyDict

\* mutant: on success only the fields computed from the document are returned
process_bill_fields_only(bill, prev_data, xml_bytes, fetched_at) ==
    LET bill_number == bill["billNumber"]
        prev == PrevOf(prev_data, bill_number)
        fields == ilga_fields_from_xml(xml_bytes, bill_number, Get(prev, "stage"),
                                       Get(prev, "stageChangedAt"), fetched_at)
    IN  IF get_xml_url(bill_number) = ValueError THEN Raise
        ELSE IF xml_bytes = NoBytes THEN Return(fetch_failure_record(bill, prev, fetched_at))
        ELSE IF fields.raised THEN Raise
        ELSE IF fields.none THEN Return(parse_failure_record(bill, prev, fetched_at))
        ELSE Return(fields.value)

\* mutant: on success the user's record is replaced by the computed fields
process_user_bill_fields_only(bill, xml_bytes, fetched_at) ==
    LET bill_number == bill["billNumber"]
        fields == ilga_fields_from_xml(xml_bytes, bill_number, Get(bill, "stage"),
                                       Get(bill, "stageChangedAt"), fetched_at)
    IN  IF get_xml_url(bill_number) = ValueError THEN Raise
        ELSE IF xml_bytes = NoBytes THEN Return(bill)
        ELSE IF fields.raised THEN Raise
        ELSE IF fields.none THEN Return(bill)
        ELSE Return(Merge(Dict([billNumber |-> bill_number]), fields.value))

\* process_bill, given what fetch_xml returned and what the clock showed
process_bill(bill, prev_data, xml_bytes, fetched_at) ==
    LET bill_number == bill["billNumber"]
        prev == PrevOf(prev_data, bill_number)
        prev_stage == Get(prev, "stage")
        prev_sca == Get(prev, "stageChangedAt")
        fields == ilga_fields_from_xml(xml_bytes, bill_number, prev_stage, prev_sca,
                                       fetched_at)
    IN  IF get_xml_url(bill_number) = ValueError THEN Raise
        ELSE IF xml_bytes = NoBytes THEN Return(fetch_failure_record(bill, prev, fetched_at))
        ELSE IF fields.raised THEN Raise
        ELSE IF fields.none THEN Return(parse_failure_record(bill, prev, fetched_at))
        ELSE Return(Merge(bill, fields.value))

\* mutant: only the eight fields the docstring lists are overlaid
process_user_bill_listed_only(bill, xml_bytes, fetched_at) ==
    LET bill_number == bill["billNumber"]
        fields == ilga_fields_from_xml(xml_bytes, bill_number, Get(bill, "stage"),
                                       Get(bill, "stageChangedAt"), fetched_at)
        listed == { "stage", "primarySponsor", "lastAction", "lastActionDate",
                    "ilgaFetchedAt", "stageChangedAt", "nextActionDate", "nextActionType" }
    IN  IF get_xml_url(bill_number) = ValueError THEN Raise
        ELSE IF xml_bytes = NoBytes THEN Return(bill)
        ELSE IF fields.raised THEN Raise
        ELSE IF fields.none THEN Return(bill)
        ELSE Return([k \in Keys |-> IF k \in listed THEN fields.value[k] ELSE bill[k]])

\* process_user_bill, given what fetch_xml returned
process_user_bill(bill, xml_bytes, fetched_at) ==
    LET bill_number == bill["billNumber"]
        prev_stage == Get(bill, "stage")
        prev_sca == Get(bill, "stageChangedAt")
        fields == ilga_fields_from_xml(xml_bytes, bill_number, prev_stage, prev_sca,
                                       fetched_at)
    IN  IF get_xml_url(bill_number) = ValueError THEN Raise
        ELSE IF xml_bytes = NoBytes THEN Return(bill)
        ELSE IF fields.raised THEN Raise
        ELSE IF fields.none THEN Return(bill)
        ELSE Return(Merge(bill, fields.value))

\* a JSON file: absent, or the list of records written to it
NoFile == [exists |-> FALSE, data |-> <<>>]
File(data) == [exists |-> TRUE, data |-> data]

\* {b["billNumber"]: b for b in data}: the last record of each bill number
load_previous_data(file) ==
    IF ~file.exists THEN << >>
    ELSE [bn \in { file.data[i]["billNumber"] : i \in 1..Len(file.data) } |->
             file.data[CHOOSE i \in 1..Len(file.data) :
                           /\ file.data[i]["billNumber"] = bn
                           /\ \A j \in (i + 1)..Len(file.data) :
                                  file.data[j]["billNumber"] # bn]]

load_user_bills(file) == IF ~file.exists THEN << >> ELSE file.data

\* datetime.now(timezone.utc).strftime("%Y-%m-%dT%H:%M:%SZ"), the clock in seconds
Strftime(t) ==
    << "2026-01-01T00:00:" \o (IF t < 10 THEN "0" ELSE "") \o ToString(t) \o "Z" >>

\* ------------------------------------------------------------------------
\* State
\* ------------------------------------------------------------------------
VARIABLES
    pc,               \* where main is: "idle", "base", "user", "refresh"; "test" in the harness
    now,              \* the wall clock, in seconds
    bills_json,       \* data/bills.json
    user_bills_json,  \* data/user-bills.json
    prev_data,        \* main: what load_previous_data returned
    results,          \* main: the records of the base bills processed so far
    changed,          \* main: the changed count
    calls,            \* per base bill processed: what fetch_xml returned, and fetched_at
    user_bills,       \* main: what load_user_bills returned
    fetched_at,       \* main: the timestamp of the user-bill refresh
    updated,          \* main: the user records refreshed so far
    user_calls,       \* per user bill refreshed: what fetch_xml returned
    exit,             \* how main ended: "ok", "raised"; "none" before it ends
    last_success,     \* per base bill: the fetched_at of its successful fetch and parse
                      \* since main started, "" without one
    user_last_success, \* the same per user bill
    fetched,          \* the locators given to fetch_xml since main started
    ms_pc,            \* a function on its own: "off"; "input", "done" for map_stage;
                      \* "doc", "extracted" for the extractors
    ms_in,            \* the arguments given to the function
    ms_out            \* the value the function returned

main_vars ==
    <<pc, now, bills_json, user_bills_json, prev_data, results, changed, calls,
      user_bills, fetched_at, updated, user_calls, exit, last_success,
      user_last_success, fetched>>

stage_vars == <<ms_pc, ms_in, ms_out>>

vars == <<main_vars, stage_vars>>

\* ------------------------------------------------------------------------
\* The documents the source can serve
\* ------------------------------------------------------------------------
\* a bill in committee, with a hearing scheduled and a shell amendment filed
DocHearing ==
    [lastaction |-> [present |-> TRUE,
                     action |-> <<WS, "Assigned", "to", "Revenue", "Committee", WS>>,
                     statusdate |-> <<"2/4/2026">>],
     sponsor |-> [present |-> TRUE,
                  sponsors |-> <<"Rep.", "Bob", "Morgan", "and", "Ann", "Williams">>],
     actions |-> [present |-> TRUE,
                  children |-> << Elem("statusdate", <<"1/9/2025">>),
                                  Elem("action", <<"Referred", "to", "Rules", "Committee">>),
                                  Elem("statusdate", <<"2/4/2026">>),
                                  Elem("action", <<"House", "Committee", "Amendment", "No.", "1",
                                                   "Filed">>),
                                  Elem("action", <<"Assigned", "to", "Revenue", "Committee">>) >>],
     nextaction |-> [present |-> TRUE, statusdate |-> <<"3/12/2026">>,
                     action |-> <<"Hearing">>],
     committeehearing |-> Missing,
     synopsis |-> [present |-> TRUE,
                   children |-> << Elem("SynopsisText", <<"Amends", "the", "Property", "Tax", "Code.">>),
                                   Elem("synopsistitle", <<"House", "Committee", "Amendment", "No.", "1">>),
                                   Elem("SynopsisText", ShellMarker \o <<"with", "the", "following">>) >>]]

\* a bill both chambers have passed
DocPassedBoth ==
    [lastaction |-> [present |-> TRUE,
                     action |-> <<"Passed", "Both", "Houses">>,
                     statusdate |-> <<"5/28/2026">>],
     sponsor |-> [present |-> TRUE, sponsors |-> <<"Rep.", "Bob", "Morgan">>],
     actions |-> [present |-> TRUE,
                  children |-> << Elem("statusdate", <<"4/10/2026">>),
                                  Elem("action", <<"Arrive", "in", "Senate">>),
                                  Elem("statusdate", <<"5/28/2026">>),
                                  Elem("action", <<"Passed", "Both", "Houses">>) >>],
     nextaction |-> NoNextAction,
     committeehearing |-> <<"Revenue", "Committee", "Hearing", "May", "5", "2026", "Room", "114">>,
     synopsis |-> NoChildren]

\* a bill just introduced: only the last action is there
DocReferred ==
    [lastaction |-> [present |-> TRUE,
                     action |-> <<"Referred", "to", "Rules", "Committee">>,
                     statusdate |-> <<"1/9/2025">>],
     sponsor |-> NoSponsor,
     actions |-> NoChildren,
     nextaction |-> NoNextAction,
     committeehearing |-> Missing,
     synopsis |-> NoChildren]

DocPool == { DocReferred, DocHearing, DocPassedBoth }

\* the documents the source has had at a locator: the first bill of the
\* catalogue has been seen just introduced as well
Served(url) ==
    IF url = get_xml_url(BILLS[1]["billNumber"]) THEN DocPool
    ELSE { DocHearing, DocPassedBoth }

\* fetch_xml: the values a fetch of the locator can return
fetch_xml(url) == { NoBytes, Garbage, Undecodable } \cup { Xml(d) : d \in Served(url) }

\* what fetch_xml returns for the item with this bill number; when
\* get_xml_url raises, fetch_xml is not called and there are no bytes
FetchFor(bill_number) ==
    IF get_xml_url(bill_number) = ValueError THEN { NoBytes }
    ELSE fetch_xml(get_xml_url(bill_number))

\* ------------------------------------------------------------------------
\* The records a user can have added to user-bills.json
\* ------------------------------------------------------------------------
UserFresh ==
    Dict([id |-> Num(201), billNumber |-> <<"HB", "4377">>,
          title |-> <<"PHA - No Work Requirements">>,
          category |-> <<"Affordable Housing">>, type |-> <<"Watching">>,
          userAdded |-> True, notes |-> <<"<list>", "call", "sponsor">>])

\* a record that has a stage and no stageChangedAt
UserStaged ==
    Merge(UserFresh,
          Dict([stage |-> InHouseCommittee,
                lastAction |-> <<"Referred", "to", "Rules", "Committee">>]))

\* a record whose bill number is not letters followed by digits
UserMalformed == Merge(UserFresh, Dict([billNumber |-> <<"hb", "4377">>]))

UserFiles ==
    { NoFile, File(<<UserFresh>>), File(<<UserStaged>>),
      File(<<UserStaged, UserMalformed>>) }

\* ------------------------------------------------------------------------
\* main
\* ------------------------------------------------------------------------
\* the locators requested so far, after the item with this bill number:
\* get_xml_url runs before fetch_xml, which is not reached when it raises
Requested(urls, bill_number) ==
    IF get_xml_url(bill_number) = ValueError THEN urls
    ELSE Append(urls, get_xml_url(bill_number))

StageOff == ms_pc = "off" /\ ms_in = <<>> /\ ms_out = None

Init ==
    /\ pc = "idle"
    /\ now = 1
    /\ bills_json = NoFile
    /\ user_bills_json \in UserFiles
    /\ prev_data = << >>
    /\ results = << >>
    /\ changed = 0
    /\ calls = << >>
    /\ user_bills = << >>
    /\ fetched_at = EmptyStr
    /\ updated = << >>
    /\ user_calls = << >>
    /\ exit = "none"
    /\ last_success = [i \in 1..Len(BILLS) |-> EmptyStr]
    /\ user_last_success = [j \in 1..Len(user_bills_json.data) |-> EmptyStr]
    /\ fetched = << >>
    /\ StageOff

\* the clock advances
Tick ==
    /\ now < MaxTime
    /\ now' = now + 1
    /\ UNCHANGED <<pc, bills_json, user_bills_json, prev_data, results, changed, calls,
                   user_bills, fetched_at, updated, user_calls, exit, last_success,
                   user_last_success, fetched>>
    /\ UNCHANGED stage_vars

\* main starts: the previous data is loaded
Start ==
    /\ pc = "idle"
    /\ prev_data' = load_previous_data(bills_json)
    /\ results' = << >>
    /\ changed' = 0
    /\ calls' = << >>
    /\ fetched' = << >>
    /\ exit' = "none"
    /\ last_success' = [i \in 1..Len(BILLS) |-> EmptyStr]
    /\ user_last_success' = [j \in 1..Len(user_bills_json.data) |-> EmptyStr]
    /\ pc' = "base"
    /\ UNCHANGED <<now, bills_json, user_bills_json, user_bills, fetched_at, updated,
                   user_calls>>
    /\ UNCHANGED stage_vars

\* mutant: only a change of stage is counted
StageChangedOnly(result, prev) == Get(result, "stage") # Get(prev, "stage")

StageOrLastActionChanged(result, prev) ==
    \/ Get(result, "stage") # Get(prev, "stage")
    \/ Get(result, "lastAction") # Get(prev, "lastAction")

\* one iteration of the loop over BILLS
ProcessBill ==
    /\ pc = "base"
    /\ Len(results) < Len(BILLS)
    /\ \E xml_bytes \in FetchFor(BILLS[Len(results) + 1]["billNumber"]) :
        LET i == Len(results) + 1
            bill == BILLS[i]
            at == Strftime(now)
            r == process_bill(bill, prev_data, xml_bytes, at)
            prev == PrevOf(prev_data, bill["billNumber"])
        IN  /\ fetched' = Requested(fetched, bill["billNumber"])
            /\ IF r.raised
               THEN /\ pc' = "idle"
                    /\ exit' = "raised"
                    /\ prev_data' = << >>
                    /\ results' = << >>
                    /\ changed' = 0
                    /\ calls' = << >>
                    /\ UNCHANGED last_success
               ELSE /\ results' = Append(results, r.value)
                    /\ changed' = IF StageOrLastActionChanged(r.value, prev)
                                  THEN changed + 1 ELSE changed
                    /\ calls' = Append(calls, [xml_bytes |-> xml_bytes, fetched_at |-> at])
                    /\ last_success' = IF xml_bytes.kind = "xml"
                                       THEN [last_success EXCEPT ![i] = at]
                                       ELSE last_success
                    /\ UNCHANGED <<pc, exit, prev_data>>
    /\ UNCHANGED <<now, bills_json, user_bills_json, user_bills, fetched_at,
                   updated, user_calls, user_last_success>>
    /\ UNCHANGED stage_vars

\* mutant: bills.json is written as soon as one item has a result
WriteBase_early ==
    /\ pc = "base"
    /\ Len(results) >= 1
    /\ bills_json' = File(results)
    /\ pc' = "user"
    /\ prev_data' = << >>
    /\ results' = << >>
    /\ changed' = 0
    /\ calls' = << >>
    /\ UNCHANGED <<now, user_bills_json, user_bills, fetched_at, updated, user_calls,
                   exit, last_success, user_last_success, fetched>>
    /\ UNCHANGED stage_vars

\* the results replace bills.json; the locals of the loop are not used again
WriteBase ==
    /\ pc = "base"
    /\ Len(results) = Len(BILLS)
    /\ bills_json' = File(results)
    /\ pc' = "user"
    /\ prev_data' = << >>
    /\ results' = << >>
    /\ changed' = 0
    /\ calls' = << >>
    /\ UNCHANGED <<now, user_bills_json, user_bills, fetched_at, updated, user_calls,
                   exit, last_success, user_last_success, fetched>>
    /\ UNCHANGED stage_vars

\* the user bills are loaded; with none to refresh main ends
LoadUserBills ==
    /\ pc = "user"
    /\ user_bills' = load_user_bills(user_bills_json)
    /\ IF load_user_bills(user_bills_json) = << >>
       THEN /\ pc' = "idle"
            /\ exit' = "ok"
            /\ UNCHANGED fetched_at
       ELSE /\ pc' = "refresh"
            /\ fetched_at' = Strftime(now)
            /\ UNCHANGED exit
    /\ UNCHANGED <<now, bills_json, user_bills_json, prev_data, results, changed, calls,
                   updated, user_calls, last_success, user_last_success, fetched>>
    /\ UNCHANGED stage_vars

\* one element of the list of refreshed user bills
ProcessUserBill ==
    /\ pc = "refresh"
    /\ Len(updated) < Len(user_bills)
    /\ \E xml_bytes \in FetchFor(user_bills[Len(updated) + 1]["billNumber"]) :
        LET j == Len(updated) + 1
            r == process_user_bill(user_bills[j], xml_bytes, fetched_at)
        IN  /\ fetched' = Requested(fetched, user_bills[j]["billNumber"])
            /\ IF r.raised
               THEN /\ pc' = "idle"
                    /\ exit' = "raised"
                    /\ user_bills' = << >>
                    /\ updated' = << >>
                    /\ user_calls' = << >>
                    /\ fetched_at' = EmptyStr
                    /\ UNCHANGED user_last_success
               ELSE /\ updated' = Append(updated, r.value)
                    /\ user_calls' = Append(user_calls, [xml_bytes |-> xml_bytes,
                                                         fetched_at |-> fetched_at])
                    /\ user_last_success' = IF xml_bytes.kind = "xml"
                                            THEN [user_last_success EXCEPT ![j] = fetched_at]
                                            ELSE user_last_success
                    /\ UNCHANGED <<pc, exit, user_bills, fetched_at>>
    /\ UNCHANGED <<now, bills_json, user_bills_json, prev_data, results, changed, calls,
                   last_success>>
    /\ UNCHANGED stage_vars

\* the refreshed records replace user-bills.json, and main ends
WriteUserBills ==
    /\ pc = "refresh"
    /\ Len(updated) = Len(user_bills)
    /\ user_bills_json' = File(updated)
    /\ pc' = "idle"
    /\ exit' = "ok"
    /\ user_bills' = << >>
    /\ updated' = << >>
    /\ user_calls' = << >>
    /\ fetched_at' = EmptyStr
    /\ UNCHANGED <<now, bills_json, prev_data, results, changed, calls, last_success,
                   user_last_success, fetched>>
    /\ UNCHANGED stage_vars

Next ==
    \/ Tick
    \/ Start
    \/ ProcessBill
    \/ WriteBase
    \/ LoadUserBills
    \/ ProcessUserBill
    \/ WriteUserBills

Spec == Init /\ [][Next]_vars

\* ------------------------------------------------------------------------
\* The classifier on its own: inputs drawn from bounded sets
\* ------------------------------------------------------------------------
StyleWord(w, k) ==
    IF \E i \in 1..Len(CaseTable) : CaseTable[i][1] = w
    THEN CaseTable[CHOOSE i \in 1..Len(CaseTable) : CaseTable[i][1] = w][k]
    ELSE w

\* k = 1 lower case, 2 capitalised, 3 upper case
Style(s, k) == [i \in 1..Len(s) |-> StyleWord(s[i], k)]

RulePhrases ==
    { <<"approved", "by", "governor">>, <<"public", "act">>,
      <<"sent", "to", "the", "governor">>, <<"to", "the", "governor">>,
      <<"passed", "both">>, <<"enrolled">>, <<"passed", "senate">>,
      <<"passed", "house">> } \cup FailedKeywords

Frags == RulePhrases \cup { <<"referred", "to", "rules", "committee">> }

RECURSIVE FragSeqs(_)
FragSeqs(n) ==
    IF n = 0 THEN { <<>> }
    ELSE FragSeqs(n - 1) \cup { f \o t : f \in Frags, t \in FragSeqs(n - 1) }

\* last-action texts: up to MaxFrags fragments, in one of the three styles
LastActionTexts == { Style(t, k) : t \in FragSeqs(MaxFrags), k \in 1..3 }

\* the empty text and the texts of one fragment
ShortTexts == { Style(t, k) : t \in { <<>> } \cup Frags, k \in 1..3 }

\* entries as get_action_texts yields them, one entry that was not
\* lower-cased, and two entries that form a phrase only when joined
HistEntries ==
    { <<"passed", "house">>, <<"arrive", "in", "senate">>,
      <<"passed", "senate">>, <<"arrive", "in", "house">>,
      <<"Passed", "House">>, <<"passed">>, <<"house">> }

RECURSIVE Histories(_)
Histories(n) ==
    IF n = 0 THEN { <<>> }
    ELSE Histories(n - 1) \cup { <<e>> \o h : e \in HistEntries, h \in Histories(n - 1) }

\* the empty history, one that crossed to the Senate, one that crossed to the House
ShortHistories ==
    { <<>>, << <<"passed", "house">> >>, << <<"arrive", "in", "house">> >> }

DocTypes == { <<"HB">>, <<"SB">>, <<"HJR">> }

\* long last actions with short histories, short last actions with long histories
StageInputs ==
    [last_action : LastActionTexts, action_history : ShortHistories, doc_type : DocTypes]
    \cup
    [last_action : ShortTexts, action_history : Histories(MaxHist), doc_type : DocTypes]

StageInit ==
    /\ pc = "test"
    /\ now = 1
    /\ bills_json = NoFile
    /\ user_bills_json = NoFile
    /\ prev_data = << >>
    /\ results = << >>
    /\ changed = 0
    /\ calls = << >>
    /\ user_bills = << >>
    /\ fetched_at = EmptyStr
    /\ updated = << >>
    /\ user_calls = << >>
    /\ exit = "none"
    /\ last_success = [i \in 1..Len(BILLS) |-> EmptyStr]
    /\ user_last_success = << >>
    /\ fetched = << >>
    /\ ms_pc = "input"
    /\ ms_in \in StageInputs
    /\ ms_out = None

MapStage ==
    /\ ms_pc = "input"
    /\ ms_out' = map_stage(ms_in.last_action, ms_in.action_history, ms_in.doc_type)
    /\ ms_pc' = "done"
    /\ UNCHANGED ms_in
    /\ UNCHANGED main_vars

StageNext == MapStage

SpecStage == StageInit /\ [][StageNext]_vars

\* ------------------------------------------------------------------------
\* The extractors on their own: documents drawn from bounded sets
\* ------------------------------------------------------------------------
\* titles: two amendment names (one padded with white space), a blank, no text
SynTitles ==
    { Elem("synopsistitle", <<"House", "Committee", "Amendment", "No.", "1">>),
      Elem("synopsistitle", <<WS, "Senate", "Floor", "Amendment", "No.", "2", WS>>),
      Elem("synopsistitle", <<WS>>),
      Elem("synopsistitle", None) }

\* bodies: the marker at the start, after white space, in lower case, in
\* mid-sentence, not at all, no text
SynBodies ==
    { Elem("SynopsisText", ShellMarker \o <<"with", "the", "following:">>),
      Elem("SynopsisText", <<WS>> \o ShellMarker),
      Elem("SynopsisText", Lower(ShellMarker)),
      Elem("SynopsisText", <<"Further", "amends", "the", "Code.">> \o ShellMarker),
      Elem("SynopsisText", <<"Amends", "the", "Property", "Tax", "Code.">>),
      Elem("SynopsisText", None) }

RECURSIVE SynSeqs(_)
SynSeqs(n) ==
    IF n = 0 THEN { <<>> }
    ELSE SynSeqs(n - 1)
         \cup { <<c>> \o cs : c \in SynTitles \cup SynBodies, cs \in SynSeqs(n - 1) }

\* children of <actions>: date markers (one padded, one without text) and
\* entries that name an amendment, name it in lower case, or do not
ActChildren ==
    { Elem("statusdate", <<"1/9/2025">>),
      Elem("statusdate", <<WS, "2/4/2026", WS>>),
      Elem("statusdate", None),
      Elem("action", <<"House", "Committee", "Amendment", "No.", "1", "Filed">>),
      Elem("action", <<"house", "committee", "amendment", "no.", "1", "adopted">>),
      Elem("action", <<"Senate", "Floor", "Amendment", "No.", "2", "Adopted">>),
      Elem("action", <<"Referred", "to", "Rules", "Committee">>),
      Elem("action", None) }

RECURSIVE ActSeqs(_)
ActSeqs(n) ==
    IF n = 0 THEN { <<>> }
    ELSE ActSeqs(n - 1) \cup { <<c>> \o cs : c \in ActChildren, cs \in ActSeqs(n - 1) }

\* a synopsis whose last amendment is the first title, or the padded second
AmendmentSynopses ==
    { << Elem("synopsistitle", <<"House", "Committee", "Amendment", "No.", "1">>),
         Elem("SynopsisText", <<"Amends", "the", "Property", "Tax", "Code.">>) >>,
      << Elem("synopsistitle", <<WS, "Senate", "Floor", "Amendment", "No.", "2", WS>>),
         Elem("SynopsisText", <<"Amends", "the", "Property", "Tax", "Code.">>) >> }

\* documents with a <synopsis> of up to n children, and one without
DocInputs(n) ==
    { [DocHearing EXCEPT !.synopsis = [present |-> TRUE, children |-> cs]] :
          cs \in SynSeqs(n) }
    \cup { [DocHearing EXCEPT !.synopsis = NoChildren] }

\* documents with an amendment and <actions> of up to n children
ActionDocInputs(n) ==
    { [DocHearing EXCEPT !.synopsis = [present |-> TRUE, children |-> cs],
                         !.actions = [present |-> TRUE, children |-> as]] :
          cs \in AmendmentSynopses, as \in ActSeqs(n) }

ExtractInit ==
    /\ pc = "test"
    /\ now = 1
    /\ bills_json = NoFile
    /\ user_bills_json = NoFile
    /\ prev_data = << >>
    /\ results = << >>
    /\ changed = 0
    /\ calls = << >>
    /\ user_bills = << >>
    /\ fetched_at = EmptyStr
    /\ updated = << >>
    /\ user_calls = << >>
    /\ exit = "none"
    /\ last_success = [i \in 1..Len(BILLS) |-> EmptyStr]
    /\ user_last_success = << >>
    /\ fetched = << >>
    /\ ms_pc = "doc"
    /\ \/ ms_in \in DocInputs(MaxSyn)
       \/ ms_in \in ActionDocInputs(MaxActs)
       \/ ms_in = [DocHearing EXCEPT !.actions = NoChildren]
    /\ ms_out = None

\* the amendment fields of the document
GetAmendments ==
    /\ ms_pc = "doc"
    /\ ms_out' = get_amendments(ms_in)
    /\ ms_pc' = "extracted"
    /\ UNCHANGED ms_in
    /\ UNCHANGED main_vars

ExtractNext == GetAmendments

SpecExtract == ExtractInit /\ [][ExtractNext]_vars

\* ------------------------------------------------------------------------
\* _ilga_fields_from_xml on its own: well-formed documents whose sections
\* are absent, empty or filled
\* ------------------------------------------------------------------------
LastActionEls ==
    { NoLastAction,
      [present |-> TRUE, action |-> Missing, statusdate |-> Missing],
      [present |-> TRUE, action |-> None, statusdate |-> <<WS>>],
      DocHearing.lastaction }

SponsorEls ==
    { NoSponsor,
      [present |-> TRUE, sponsors |-> Missing],
      [present |-> TRUE, sponsors |-> None],
      DocHearing.sponsor }

ActionsEls ==
    { NoChildren,
      [present |-> TRUE, children |-> <<>>],
      [present |-> TRUE, children |-> << Elem("action", None), Elem("statusdate", None) >>],
      DocHearing.actions }

\* <nextaction>: absent, or with a date and an action type that are absent,
\* without text, blank, filled or padded
NextActionEls ==
    { NoNextAction }
    \cup { [present |-> TRUE, statusdate |-> d, action |-> a] :
               d \in { Missing, None, <<WS>>, <<"3/12/2026">>, <<WS, "3/12/2026", WS>> },
               a \in { Missing, None, <<"Hearing">>, <<WS, "Hearing", WS>> } }

\* <committeehearing>: absent, without text, blank, without a date, with a
\* date after some words, with nothing before the date, with two dates
HearingTexts ==
    { Missing, None, <<WS>>,
      <<"Revenue", "Committee", "Room", "114">>,
      <<"Revenue", "Committee", "Hearing", "May", "5", "2026", "Room", "114">>,
      <<WS, "Mar", "12", "2026">>,
      <<"Hearing", "Apr", "28", "2025", "and", "May", "5", "2026">> }

SynopsisEls ==
    { NoChildren, [present |-> TRUE, children |-> <<>>], DocHearing.synopsis }

FieldsInit ==
    /\ pc = "test"
    /\ now = 1
    /\ bills_json = NoFile
    /\ user_bills_json = NoFile
    /\ prev_data = << >>
    /\ results = << >>
    /\ changed = 0
    /\ calls = << >>
    /\ user_bills = << >>
    /\ fetched_at = EmptyStr
    /\ updated = << >>
    /\ user_calls = << >>
    /\ exit = "none"
    /\ last_success = [i \in 1..Len(BILLS) |-> EmptyStr]
    /\ user_last_success = << >>
    /\ fetched = << >>
    /\ ms_pc = "xml"
    /\ \E la \in LastActionEls, sp \in SponsorEls, ac \in ActionsEls,
          na \in NextActionEls, ch \in HearingTexts, sy \in SynopsisEls :
           ms_in = [lastaction |-> la, sponsor |-> sp, actions |-> ac, nextaction |-> na,
                    committeehearing |-> ch, synopsis |-> sy]
    /\ ms_out = None

\* the inferred fields of the document, for the first bill of the catalogue
\* seen for the first time
IlgaFieldsFromXml ==
    /\ ms_pc = "xml"
    /\ ms_out' = ilga_fields_from_xml(Xml(ms_in), BILLS[1]["billNumber"], None, None,
                                       Strftime(now))
    /\ ms_pc' = "fields"
    /\ UNCHANGED ms_in
    /\ UNCHANGED main_vars

FieldsNext == IlgaFieldsFromXml

SpecFields == FieldsInit /\ [][FieldsNext]_vars

\* ------------------------------------------------------------------------
\* Claims
\* ------------------------------------------------------------------------
\* The items reconciled so far in the running main: the record read for
\* the item, what the fetch returned and when, and the record produced.
Reconciled ==
    { [base |-> TRUE, bill |-> BILLS[i],
       has_prev |-> BILLS[i]["billNumber"] \in DOMAIN prev_data,
       prev |-> PrevOf(prev_data, BILLS[i]["billNumber"]),
       call |-> calls[i], out |-> results[i]] : i \in 1..Len(results) }
    \cup
    { [base |-> FALSE, bill |-> user_bills[j], has_prev |-> TRUE,
       prev |-> user_bills[j],
       call |-> user_calls[j], out |-> updated[j]] : j \in 1..Len(updated) }

\* the fetch returned bytes and they parsed
Succeeded(call) == call.xml_bytes.kind = "xml"

\* C1: after a successful fetch and parse, when the newly classified stage
\* differs from the stage of the previous record (or there is no previous
\* record or stage), stageChangedAt is the fetch timestamp of this run.
C1_StageChangeStamped ==
    \A r \in Reconciled :
        (Succeeded(r.call) /\ r.out["stage"] # Get(r.prev, "stage"))
            => r.out["stageChangedAt"] = r.call.fetched_at

\* a base bill moved from committee to Enrolled, stamped later than before
C1_Witness ==
    \E r \in Reconciled :
        /\ r.base /\ Succeeded(r.call)
        /\ r.prev["stage"] = InHouseCommittee
        /\ r.out["stage"] = Enrolled
        /\ r.prev["stageChangedAt"] = Strftime(1)
        /\ r.out["stageChangedAt"] = Strftime(2)

\* C2: after a successful fetch and parse, when the newly classified stage
\* equals the stage of the previous record, stageChangedAt is the previous
\* record's stageChangedAt; it is the fetch timestamp of this run only when
\* the previous record has no stageChangedAt (missing, null or empty).
C2_SameStageCarried ==
    \A r \in Reconciled :
        (Succeeded(r.call) /\ r.out["stage"] = Get(r.prev, "stage"))
            => IF Truthy(Get(r.prev, "stageChangedAt"))
               THEN r.out["stageChangedAt"] = r.prev["stageChangedAt"]
               ELSE r.out["stageChangedAt"] = r.call.fetched_at

\* a bill fetched again in the same stage keeps the older timestamp
C2_Witness ==
    \E r \in Reconciled :
        /\ Succeeded(r.call)
        /\ r.out["stage"] = r.prev["stage"]
        /\ r.prev["stageChangedAt"] = Strftime(1)
        /\ r.call.fetched_at = Strftime(2)
        /\ r.out["stageChangedAt"] = Strftime(1)

\* record i of a JSON file, {} when the file has no such record
RecordAt(file, i) == IF file.exists /\ i <= Len(file.data) THEN file.data[i] ELSE EmptyDict

\* the stamp moved from record e to the record l that replaces it
StampMoved(e, l) == l["stageChangedAt"] # e["stageChangedAt"]

\* C3: whenever a persisted record is replaced, its stageChangedAt differs
\* from the replaced record's only if the stage differs or the replaced
\* record had no stageChangedAt (missing, null or empty); this holds over
\* every sequence of successful runs, fetch failures and parse failures.
C3_StampMovesOnlyWithStage ==
    [][ /\ \A i \in 1..Len(BILLS) :
              LET e == RecordAt(bills_json, i)
                  l == RecordAt(bills_json', i)
              IN  StampMoved(e, l)
                      => (l["stage"] # e["stage"] \/ ~Truthy(Get(e, "stageChangedAt")))
        /\ \A j \in 1..Len(user_bills_json.data) :
              LET e == RecordAt(user_bills_json, j)
                  l == RecordAt(user_bills_json', j)
              IN  StampMoved(e, l)
                      => (l["stage"] # e["stage"] \/ ~Truthy(Get(e, "stageChangedAt")))
      ]_vars

\* the batch is reconciled and about to be written: one record keeps its
\* stage and stamp after a failure, another changes stage and stamp
C3_Witness ==
    /\ pc = "base" /\ Len(results) = Len(BILLS) /\ bills_json.exists
    /\ \E r \in Reconciled :
          /\ ~Succeeded(r.call)
          /\ r.prev["stageChangedAt"] = Strftime(1)
          /\ r.call.fetched_at = Strftime(2)
          /\ ~StampMoved(r.prev, r.out)
    /\ \E r \in Reconciled :
          /\ Succeeded(r.call)
          /\ Truthy(Get(r.prev, "stageChangedAt"))
          /\ r.out["stage"] # r.prev["stage"]
          /\ StampMoved(r.prev, r.out)

\* C4: when the fetch fails for an item that has a previous record, every
\* inferred field of the output record has the value it has in the previous
\* record; stage and ilgaFetchedAt in particular.
C4_FetchFailureKeepsFields ==
    \A r \in Reconciled :
        (r.call.xml_bytes = NoBytes /\ r.has_prev)
            => \A k \in InferredKeys : r.out[k] = r.prev[k]

\* a base bill that was Enrolled stays Enrolled, fetched at the older time
C4_Witness ==
    \E r \in Reconciled :
        /\ r.base /\ r.has_prev /\ r.call.xml_bytes = NoBytes
        /\ r.prev["stage"] = Enrolled /\ r.out["stage"] = Enrolled
        /\ r.prev["ilgaFetchedAt"] = Strftime(1)
        /\ r.call.fetched_at = Strftime(2)
        /\ r.out["ilgaFetchedAt"] = Strftime(1)

\* the inferred fields of a record that was never fetched
NeverFetchedFields ==
    Dict([stage |-> Unknown, primarySponsor |-> EmptyStr, lastAction |-> EmptyStr,
          lastActionDate |-> EmptyStr, ilgaFetchedAt |-> EmptyStr,
          stageChangedAt |-> EmptyStr, nextActionDate |-> None, nextActionType |-> None,
          lastAmendmentName |-> None, lastAmendmentDate |-> None, isShellBill |-> False])

\* C5: when the fetch or the parse fails for a catalogued item that has no
\* previous record, the stage of the output record is "Unknown" and the
\* other inferred fields are empty, null or false.
C5_NoPreviousGivesUnknown ==
    \A r \in Reconciled :
        (r.base /\ ~Succeeded(r.call) /\ ~r.has_prev)
            => /\ r.out["stage"] = Unknown
               /\ \A k \in InferredKeys : r.out[k] = NeverFetchedFields[k]

\* both outcomes in a first run: one bill failed to fetch, the other to parse
C5_Witness ==
    /\ \E r \in Reconciled :
          r.base /\ ~r.has_prev /\ r.call.xml_bytes = NoBytes /\ r.out["stage"] = Unknown
    /\ \E r \in Reconciled :
          r.base /\ ~r.has_prev /\ r.call.xml_bytes = Garbage /\ r.out["stage"] = Unknown

\* the other way for a fetch to yield no fields
OtherFailure(xml_bytes) == IF xml_bytes = NoBytes THEN Garbage ELSE NoBytes

\* C6: a parse failure is recovered as a fetch failure is: for the same
\* item, previous record and time, the record produced when the bytes do
\* not parse equals the record produced when the fetch fails, for
\* catalogued and for user-added items.
C6_ParseFailureAsFetchFailure ==
    \A r \in Reconciled :
        ~Succeeded(r.call)
            => r.out =
                 IF r.base
                 THEN process_bill(r.bill, prev_data, OtherFailure(r.call.xml_bytes),
                                   r.call.fetched_at).value
                 ELSE process_user_bill(r.bill, OtherFailure(r.call.xml_bytes),
                                        r.call.fetched_at).value

\* unparsable bytes for a base bill that an earlier run found Enrolled
C6_Witness ==
    \E r \in Reconciled :
        /\ r.base /\ r.has_prev /\ r.call.xml_bytes = Garbage
        /\ r.prev["stage"] = Enrolled /\ r.out["stage"] = Enrolled
        /\ r.prev["ilgaFetchedAt"] = Strftime(1)
        /\ r.call.fetched_at = Strftime(2)

\* C7: between runs, the persisted ilgaFetchedAt of an item is the
\* timestamp of the most recent run in which its fetch and parse both
\* succeeded: a successful run sets it, a failed run leaves it unchanged.
\* Stated for the items that were fetched and parsed in the run that has
\* just ended.
C7_PersistedFetchedAtIsLastSuccess ==
    pc = "idle" =>
        /\ \A i \in 1..Len(BILLS) :
              (bills_json.exists /\ last_success[i] # EmptyStr)
                  => bills_json.data[i]["ilgaFetchedAt"] = last_success[i]
        /\ \A j \in 1..Len(user_bills_json.data) :
              user_last_success[j] # EmptyStr
                  => user_bills_json.data[j]["ilgaFetchedAt"] = user_last_success[j]

StageLabels ==
    { InHouseCommittee, InSenateCommittee, PassedHouse, PassedSenate, Enrolled,
      AwaitingGovernorSignature, SignedIntoLaw, Failed, Unknown }

\* C8: map_stage is total: for every last-action text (the empty one
\* included), every action history (the empty one included) and every
\* document-type prefix it returns one label of the stage enumeration.
C8_Total == ms_pc = "done" => ms_out \in StageLabels

C8_Witness ==
    /\ ms_pc = "done"
    /\ ms_in.last_action = <<>>
    /\ ms_in.action_history = <<>>
    /\ ms_in.doc_type = <<"HJR">>
    /\ ms_out = InSenateCommittee

\* The rule table of the specification, as data: phrases and the stage.
RuleTable ==
    << [phrases |-> { <<"approved", "by", "governor">>, <<"public", "act">> },
        stage |-> SignedIntoLaw],
       [phrases |-> { <<"sent", "to", "the", "governor">>, <<"to", "the", "governor">> },
        stage |-> AwaitingGovernorSignature],
       [phrases |-> { <<"passed", "both">>, <<"enrolled">> }, stage |-> Enrolled],
       [phrases |-> { <<"passed", "senate">> }, stage |-> PassedSenate],
       [phrases |-> { <<"passed", "house">> }, stage |-> PassedHouse],
       [phrases |-> { <<"vetoed">>, <<"failed">>, <<"did", "not", "pass">>,
                      <<"tabled">>, <<"withdrawn">> },
        stage |-> Failed] >>

RuleFires(i, text) == \E p \in RuleTable[i].phrases : Contains(Lower(text), p)

SomeRuleFires(text) == \E i \in 1..Len(RuleTable) : RuleFires(i, text)

FirstRule(text) ==
    CHOOSE i \in 1..Len(RuleTable) :
        RuleFires(i, text) /\ \A j \in 1..(i - 1) : ~RuleFires(j, text)

\* C9: whenever some rule of the table matches the last-action text,
\* ignoring case, map_stage returns the stage of the first matching rule.
C9_RuleTable ==
    (ms_pc = "done" /\ SomeRuleFires(ms_in.last_action))
        => ms_out = RuleTable[FirstRule(ms_in.last_action)].stage

\* "... Approved by Governor ... Vetoed" in capitals is Signed into Law
C9_Witness ==
    /\ ms_pc = "done"
    /\ ms_in.last_action = <<"Approved", "By", "Governor", "Vetoed">>
    /\ ms_out = SignedIntoLaw

\* C10: when the last-action text matches one of rules 1-6, the stage is
\* the same whatever the action history and the document-type prefix are:
\* the stage returned for any history and prefix equals the stage returned
\* for the same last action with each short history and each prefix.
C10_LastActionDominates ==
    (ms_pc = "done" /\ SomeRuleFires(ms_in.last_action))
        => \A h \in ShortHistories, d \in DocTypes :
               map_stage(ms_in.last_action, h, d) = ms_out

\* history says "arrive in house", last action says "public act"
C10_Witness ==
    /\ ms_pc = "done"
    /\ ms_in.last_action = <<"Public", "Act">>
    /\ Contains(Join(ms_in.action_history), <<"arrive", "in", "house">>)
    /\ ms_out = SignedIntoLaw

\* the history get_action_texts yields from <action> elements with these texts
Extracted(texts) == ActionTexts([i \in 1..Len(texts) |-> Elem("action", texts[i])])

\* every entry in lower case
LowerEach(history) == [i \in 1..Len(history) |-> Lower(history[i])]

\* the text is found in the concatenation of the entries
CrossedToSenate(history) ==
    \/ Contains(Join(history), <<"passed", "house">>)
    \/ Contains(Join(history), <<"arrive", "in", "senate">>)

CrossedToHouse(history) ==
    \/ Contains(Join(history), <<"passed", "senate">>)
    \/ Contains(Join(history), <<"arrive", "in", "house">>)

\* the stage the chamber crossings of a history stand for, None without one
CrossingStage(history) ==
    IF CrossedToSenate(history) THEN InSenateCommittee
    ELSE IF CrossedToHouse(history) THEN InHouseCommittee
    ELSE None

\* C11: when the last action matches none of rules 1-6, the stage comes
\* from the lower-cased action history: "passed house" or "arrive in senate"
\* gives In Senate Committee whatever the prefix and even when "passed
\* senate" or "arrive in house" is there too; otherwise "passed senate" or
\* "arrive in house" gives In House Committee.  Stated for the history as
\* get_action_texts yields it, and for the history extracted from action
\* texts in any letter case.
C11_HistoryInference ==
    (ms_pc = "done" /\ ~SomeRuleFires(ms_in.last_action))
        => /\ (ms_in.action_history = Extracted(ms_in.action_history)
                  /\ CrossingStage(ms_in.action_history) # None)
              => ms_out = CrossingStage(ms_in.action_history)
           /\ CrossingStage(LowerEach(ms_in.action_history)) # None
              => map_stage(ms_in.last_action, Extracted(ms_in.action_history),
                           ms_in.doc_type)
                   = CrossingStage(LowerEach(ms_in.action_history))

\* a House bill whose history has both crossings is in the Senate
C11_Witness ==
    /\ ms_pc = "done"
    /\ ms_in.last_action = <<"Referred", "To", "Rules", "Committee">>
    /\ ms_in.action_history = << <<"arrive", "in", "house">>, <<"arrive", "in", "senate">> >>
    /\ ms_in.doc_type = <<"HB">>
    /\ ms_out = InSenateCommittee

C13_UserKeysPreserved ==
    \A r \in Reconciled :
        ~r.base
            => /\ \A k \in Keys \ InferredKeys : r.out[k] = r.bill[k]
               /\ ~Succeeded(r.call) => r.out = r.bill

\* a user-added bill moved to Enrolled and kept its notes
C13_Witness ==
    \E r \in Reconciled :
        /\ ~r.base /\ Succeeded(r.call)
        /\ r.bill["stage"] = InHouseCommittee /\ r.out["stage"] = Enrolled
        /\ Truthy(Get(r.bill, "notes")) /\ r.out["notes"] = r.bill["notes"]
        /\ r.out["userAdded"] = True

\* C14: every static field of a catalogue entry is in the record
\* process_bill produces, with the value of the catalogue entry, after a
\* fetch failure, after a parse failure and after a success.
C14_StaticFieldsPassThrough ==
    \A r \in Reconciled :
        r.base => \A k \in StaticKeys : r.out[k] # Missing /\ r.out[k] = r.bill[k]

\* a batch with a success and a parse failure, read over a previous record
C14_Witness ==
    /\ \E r \in Reconciled :
          r.base /\ r.has_prev /\ Succeeded(r.call) /\ r.out["url"] = r.bill["url"]
    /\ \E r \in Reconciled :
          r.base /\ r.has_prev /\ r.call.xml_bytes = Garbage /\ r.out["url"] = r.bill["url"]

\* what a fetch yields in the three outcomes of an item: success, fetch
\* failure, parse failure
ThreeOutcomes(bill_number) ==
    { x \in FetchFor(bill_number) : x.kind \in { "xml", "None", "garbage" } }

MalformedNumbers ==
    { <<"hb", "4377">>, <<"4377">>, <<"HB">>, << >>, <<"4377", "HB">>,
      <<"HB", "-", "4377">>, <<WS, "HB", "4377">>, <<"HB", "4377", "A">> }

\* C16: for an identity code that is not upper-case letters followed by
\* digits, parse_bill_number and get_xml_url raise; processing the item ends
\* main with that exception whatever the source would have served (a fetch
\* or parse failure returns a record instead), and no locator is given to
\* fetch_xml for the item.
C16_MalformedIdentityRefused ==
    [][ /\ \A bn \in MalformedNumbers :
              parse_bill_number(bn) = ValueError /\ get_xml_url(bn) = ValueError
        /\ (pc = "refresh" /\ Len(updated) < Len(user_bills) /\ now' = now
              /\ user_bills[Len(updated) + 1]["billNumber"] \in MalformedNumbers)
              => /\ \A x \in fetch_xml(get_xml_url(BILLS[1]["billNumber"])) :
                       process_user_bill(user_bills[Len(updated) + 1], x, fetched_at) = Raise
                 /\ exit' = "raised"
                 /\ fetched' = fetched
      ]_vars

\* the first user bill was refreshed, the second has a malformed number:
\* main ended with the exception, having fetched once for the user bills
C16_Witness ==
    /\ pc = "idle" /\ exit = "raised"
    /\ Len(user_bills_json.data) = 2
    /\ user_bills_json.data[2]["billNumber"] \in MalformedNumbers
    /\ user_last_success[1] # EmptyStr
    /\ Len(fetched) = Len(BILLS) + 1

\* C17: no exception propagates past the processing of a single item: a
\* run of main never ends with an exception (the remaining items are
\* processed and the output is written).
C17_NoExceptionEndsTheRun == exit # "raised"

\* the items processed so far whose record differs from the previous
\* record (None where there is none) in the stage or in the last action
ChangedItems ==
    { i \in 1..Len(results) :
        LET prev == PrevOf(prev_data, BILLS[i]["billNumber"])
        IN  \/ results[i]["stage"] # Get(prev, "stage")
            \/ results[i]["lastAction"] # Get(prev, "lastAction") }

\* C18: the changed count is the number of catalogued items whose output
\* stage or output last action differs from the previous record's; the
\* count has no effect on the records: each is what process_bill returns
\* for the catalogue entry, the previous data, the bytes fetched and the time.
C18_ChangedCount ==
    pc = "base"
        => /\ changed = Cardinality(ChangedItems)
           /\ \A i \in 1..Len(results) :
                 results[i] = process_bill(BILLS[i], prev_data, calls[i].xml_bytes,
                                           calls[i].fetched_at).value

\* the batch is complete: the first bill has a new last action in the same
\* stage, the second is as it was, and one change is counted
C18_Witness ==
    /\ pc = "base" /\ Len(results) = Len(BILLS) /\ bills_json.exists
    /\ changed = 1
    /\ Succeeded(calls[1]) /\ Succeeded(calls[2])
    /\ results[1]["stage"] = bills_json.data[1]["stage"]
    /\ results[1]["lastAction"] # bills_json.data[1]["lastAction"]
    /\ results[2]["lastAction"] = bills_json.data[2]["lastAction"]

\* the trimmed text of a child of <synopsis>
TextOf(c) == Strip(Or(c.text, EmptyStr))

NonEmptyTitle(c) == c.tag = "synopsistitle" /\ TextOf(c) # EmptyStr

Body(c) == c.tag = "SynopsisText"

\* child j is the body of a title/body pair: a non-empty title precedes it
\* and no body lies between them
PairBody(cs, j) ==
    /\ Body(cs[j])
    /\ \E i \in 1..(j - 1) :
          NonEmptyTitle(cs[i]) /\ \A k \in (i + 1)..(j - 1) : ~Body(cs[k])

\* the title that body j consumes: the last non-empty title before it
TitleBefore(cs, j) ==
    TextOf(cs[CHOOSE i \in 1..(j - 1) :
                  /\ NonEmptyTitle(cs[i])
                  /\ \A k \in (i + 1)..(j - 1) : ~NonEmptyTitle(cs[k])])

StartsWithMarker(c) == StartsWith(TextOf(c), ShellMarker)

SynopsisOf(root) == IF root.synopsis.present THEN root.synopsis.children ELSE << >>

\* C19 as stated: the shell-bill flag is true if and only if some synopsis
\* body text begins, after trimming and in this letter case, with
\* "Replaces everything after the enacting clause".
C19_ShellIffSomeBodyHasMarker ==
    ms_pc = "extracted"
        => (ms_out[3] = True
              <=> \E j \in 1..Len(SynopsisOf(ms_in)) :
                      Body(SynopsisOf(ms_in)[j]) /\ StartsWithMarker(SynopsisOf(ms_in)[j]))

\* C19, amended: the shell-bill flag is true if and only if the body of
\* some title/body pair (a body that consumes a pending non-empty title)
\* begins, after trimming and in this letter case, with the marker; it is
\* False otherwise, and a body without a pending title is not examined.
C19_ShellIffSomePairBodyHasMarker ==
    ms_pc = "extracted"
        => /\ ms_out[3] \in { True, False }
           /\ ms_out[3] = True
                 <=> \E j \in 1..Len(SynopsisOf(ms_in)) :
                         PairBody(SynopsisOf(ms_in), j) /\ StartsWithMarker(SynopsisOf(ms_in)[j])

\* the marker in mid-sentence under the first title, after white space
\* under the second
C19_Witness ==
    /\ ms_pc = "extracted"
    /\ Len(SynopsisOf(ms_in)) = 4
    /\ PairBody(SynopsisOf(ms_in), 2) /\ ~StartsWithMarker(SynopsisOf(ms_in)[2])
    /\ Contains(TextOf(SynopsisOf(ms_in)[2]), ShellMarker)
    /\ PairBody(SynopsisOf(ms_in), 4) /\ SynopsisOf(ms_in)[4].text = <<WS>> \o ShellMarker
    /\ ms_out[3] = True

\* C20: the synopsis is scanned in order, a non-empty title becoming the
\* pending title and a body consuming it; the last-amendment name is the
\* title of the last title/body pair, and is None when there is no pair.
C20_LastPairNames ==
    ms_pc = "extracted"
        => LET cs == SynopsisOf(ms_in)
               pairs == { j \in 1..Len(cs) : PairBody(cs, j) }
           IN  IF pairs = {} THEN ms_out[1] = None
               ELSE ms_out[1] =
                      TitleBefore(cs, CHOOSE j \in pairs : \A k \in pairs : k <= j)

\* two pairs: the name is the second title, trimmed
C20_Witness ==
    /\ ms_pc = "extracted"
    /\ Len(SynopsisOf(ms_in)) = 4
    /\ PairBody(SynopsisOf(ms_in), 2) /\ PairBody(SynopsisOf(ms_in), 4)
    /\ TitleBefore(SynopsisOf(ms_in), 2) = <<"House", "Committee", "Amendment", "No.", "1">>
    /\ ms_out[1] = <<"Senate", "Floor", "Amendment", "No.", "2">>

\* ------------------------------------------------------------------------
\* the children of <actions>, none when the section is absent
ActionsOf(root) == IF root.actions.present THEN root.actions.children ELSE <<>>

\* child j is an action entry whose text contains the name
Mentions(cs, j, name) ==
    cs[j].tag = "action" /\ Contains(Or(cs[j].text, EmptyStr), name)

\* the date marker in force at child j: the trimmed text of the nearest
\* date marker before it, None when there is none
DateInForce(cs, j) ==
    LET markers == { i \in 1..(j - 1) : cs[i].tag = "statusdate" }
    IN  IF markers = {} THEN None
        ELSE LET i == CHOOSE i \in markers : \A k \in markers : k <= i
             IN  Strip(Or(cs[i].text, EmptyStr))

\* C21: the date of the last amendment is the date marker in force at the
\* first action entry whose text contains the name of the last amendment
\* as a literal substring, absent when that marker is missing or empty; it
\* is absent when no action entry contains the name, and when there is no
\* last amendment.
C21_AmendmentDate ==
    ms_pc = "extracted" =>
        LET cs == ActionsOf(ms_in)
            name == ms_out[1]
            hits == { j \in 1..Len(cs) : Mentions(cs, j, name) }
        IN  IF name = None \/ hits = {} THEN ms_out[2] = None
            ELSE LET j == CHOOSE j \in hits : \A k \in hits : j <= k
                 IN  ms_out[2] = Or(DateInForce(cs, j), None)

\* two date markers precede the first entry that names the amendment, a
\* later entry names it again under another date, and the date is the one
\* of the second marker
C21_Witness ==
    /\ ms_pc = "extracted"
    /\ ms_out[1] = <<"House", "Committee", "Amendment", "No.", "1">>
    /\ LET cs == ActionsOf(ms_in)
       IN  /\ Len(cs) = 3
           /\ cs[1] = Elem("statusdate", <<"1/9/2025">>)
           /\ cs[2] = Elem("statusdate", <<WS, "2/4/2026", WS>>)
           /\ Mentions(cs, 3, ms_out[1])
    /\ ms_out[2] = <<"2/4/2026">>

\* ------------------------------------------------------------------------
\* the text of an element's child: empty when the child is absent or has
\* no text, trimmed otherwise
Trimmed(text) == IF text = Missing THEN EmptyStr ELSE Strip(Or(text, EmptyStr))

\* the next-action element is there and its date, trimmed, is not empty
HasDate(na) == na.present /\ Trimmed(na.statusdate) # EmptyStr

\* the positions of the committee-hearing text, trimmed, where a month
\* abbreviation, a day and a year follow one another
DateTokens(ch) == { i \in 1..Len(Trimmed(ch)) : DateMatchAt(Trimmed(ch), i) }

\* M/D/Y of the first date token, and the text before it
HearingDate(ch) ==
    LET raw == Trimmed(ch)
        i == CHOOSE i \in DateTokens(ch) : \A j \in DateTokens(ch) : i <= j
    IN  << << MONTH_MAP[raw[i]] \o "/" \o raw[i + 1] \o "/" \o raw[i + 2] >>,
           Strip(SubSeq(raw, 1, i - 1)) >>

\* "" is written as null
NullIfEmpty(text) == IF text = EmptyStr THEN None ELSE text

\* the record _ilga_fields_from_xml returned
FieldsOut == ms_out.value

\* C22: the next action is taken from the next-action element when it has
\* a date (its date, and its action type or null), otherwise from the
\* committee-hearing text when a month, day, year token is found there (the
\* date as M/D/Y, and the text before the token or null); when neither
\* gives a date, nextActionDate and nextActionType are both null.
C22_NextAction ==
    ms_pc = "fields" =>
        LET na == ms_in.nextaction
            ch == ms_in.committeehearing
        IN  IF HasDate(na)
            THEN /\ FieldsOut["nextActionDate"] = Trimmed(na.statusdate)
                 /\ FieldsOut["nextActionType"] = NullIfEmpty(Trimmed(na.action))
            ELSE IF DateTokens(ch) # {}
            THEN /\ FieldsOut["nextActionDate"] = HearingDate(ch)[1]
                 /\ FieldsOut["nextActionType"] = NullIfEmpty(HearingDate(ch)[2])
            ELSE /\ FieldsOut["nextActionDate"] = None
                 /\ FieldsOut["nextActionType"] = None

\* ------------------------------------------------------------------------
\* _ilga_fields_from_xml returned a record
FieldsReturned == ms_pc = "fields" /\ ~ms_out.raised /\ ~ms_out.none

\* C23: for a well-formed document, whichever of its sections are absent
\* or empty, _ilga_fields_from_xml raises nothing and returns a record
\* with every inferred field, stamped with the fetch time; an absent
\* <lastaction> gives an empty lastAction and lastActionDate, an absent
\* <sponsor> an empty primarySponsor, absent <nextaction> and
\* <committeehearing> a null nextActionDate and nextActionType, an absent
\* <synopsis> no amendment and no shell flag, and with no last action and
\* no action history the stage is the one of the bill's chamber.
C23_MissingSectionsDoNotRaise ==
    ms_pc = "fields" =>
        /\ FieldsReturned
        /\ \A k \in InferredKeys : FieldsOut[k] # Missing
        /\ \A k \in Keys \ InferredKeys : FieldsOut[k] = Missing
        /\ FieldsOut["ilgaFetchedAt"] = Strftime(now)
        /\ ~ms_in.lastaction.present =>
               FieldsOut["lastAction"] = EmptyStr /\ FieldsOut["lastActionDate"] = EmptyStr
        /\ ~ms_in.sponsor.present => FieldsOut["primarySponsor"] = EmptyStr
        /\ (~ms_in.nextaction.present /\ ms_in.committeehearing = Missing) =>
               FieldsOut["nextActionDate"] = None /\ FieldsOut["nextActionType"] = None
        /\ ~ms_in.synopsis.present =>
               /\ FieldsOut["lastAmendmentName"] = None
               /\ FieldsOut["lastAmendmentDate"] = None
               /\ FieldsOut["isShellBill"] = False
        /\ (~ms_in.lastaction.present /\ ~ms_in.actions.present) =>
               FieldsOut["stage"] = InHouseCommittee

\* a document with none of the six sections has gone through
C23_Witness ==
    /\ FieldsReturned
    /\ ms_in = [lastaction |-> NoLastAction, sponsor |-> NoSponsor, actions |-> NoChildren,
                nextaction |-> NoNextAction, committeehearing |-> Missing,
                synopsis |-> NoChildren]
    /\ FieldsOut["lastAction"] = EmptyStr
    /\ FieldsOut["stage"] = InHouseCommittee

\* ------------------------------------------------------------------------
\* C29: in a record of the success path, a nextActionType that is not null
\* comes with a nextActionDate that is not null, also when the date text of
\* the next-action element is blank.
C29_TypeImpliesDate ==
    FieldsReturned =>
        (FieldsOut["nextActionType"] # None => FieldsOut["nextActionDate"] # None)

\* ------------------------------------------------------------------------
\* C24: while the catalogue is being processed the previous data holds
\* every record of bills.json; bills.json changes only in the step that
\* writes the results of all the catalogued items, so a run that ends with
\* an exception in the middle of the batch leaves bills.json as it was.
C24_LoadedBeforeWrittenAfter ==
    [][ /\ pc' = "base" =>
              \A i \in 1..Len(bills_json'.data) :
                  PrevOf(prev_data', bills_json'.data[i]["billNumber"]) = bills_json'.data[i]
        /\ bills_json' # bills_json =>
              /\ pc = "base"
              /\ Len(results) = Len(BILLS)
              /\ bills_json' = File(results)
        /\ (pc = "base" /\ exit' = "raised") => bills_json' = bills_json
      ]_vars

\* a run over a written bills.json has ended with an exception at the
\* first catalogued item, and bills.json is still there
C24_Witness ==
    /\ pc = "idle" /\ exit = "raised"
    /\ Len(fetched) = 1
    /\ bills_json.exists /\ Len(bills_json.data) = Len(BILLS)

\* ------------------------------------------------------------------------
\* the fields the docstring of process_user_bill lists as updated
ListedKeys ==
    { "stage", "primarySponsor", "lastAction", "lastActionDate", "ilgaFetchedAt",
      "stageChangedAt", "nextActionDate", "nextActionType" }

\* the keys whose value differs between two records
ChangedKeys(before, after) == { k \in Keys : after[k] # before[k] }

\* the user-added bills refreshed from a document that parsed
Refreshed == { r \in Reconciled : ~r.base /\ Succeeded(r.call) }

TimeOf(stamp) == CHOOSE t \in 1..MaxTime : Strftime(t) = stamp

\* the records of bills.json and of user-bills.json
Persisted ==
    { bills_json.data[i] : i \in 1..Len(bills_json.data) }
    \cup { user_bills_json.data[j] : j \in 1..Len(user_bills_json.data) }

\* the record has a stage-changed timestamp and a fetch timestamp
HasBothStamps(rec) ==
    Truthy(Get(rec, "stageChangedAt")) /\ Truthy(Get(rec, "ilgaFetchedAt"))

\* C26: bills.json being absent at first and the clock never going back,
\* after any sequence of runs every persisted record that has a
\* stageChangedAt and an ilgaFetchedAt has stageChangedAt <= ilgaFetchedAt.
C26_StageChangedNotAfterFetched ==
    \A rec \in Persisted :
        HasBothStamps(rec) => TimeOf(rec["stageChangedAt"]) <= TimeOf(rec["ilgaFetchedAt"])

\* a record fetched again in the same stage: the stage-changed timestamp
\* is older than the fetch timestamp; beside it, a record whose fetch has
\* just failed
C26_Witness ==
    /\ bills_json.exists
    /\ bills_json.data[1]["stageChangedAt"] = Strftime(1)
    /\ bills_json.data[1]["ilgaFetchedAt"] = Strftime(2)
    /\ HasBothStamps(bills_json.data[2])
    /\ bills_json.data[2]["ilgaFetchedAt"] = Strftime(1)

\* ------------------------------------------------------------------------
\* the record has a stage, and it is not "Unknown"
HasKnownStage(rec) == Get(rec, "stage") \notin { None, Unknown }

\* C27: map_stage never returns "Unknown": a record made from a document
\* that parsed never has that stage.  A catalogued item whose record, read
\* back at the start of the run, has a stage other than "Unknown" gets a
\* stage other than "Unknown" again, whether the fetch succeeds, fails or
\* the document does not parse; so a record of bills.json with the stage
\* "Unknown" has never been fetched and parsed.
C27_UnknownOnlyIfNeverFetched ==
    /\ ms_pc = "done" => ms_out # Unknown
    /\ \A r \in Reconciled :
          /\ Succeeded(r.call) => r.out["stage"] # Unknown
          /\ (r.base /\ HasKnownStage(r.prev)) => r.out["stage"] # Unknown
    /\ \A i \in 1..Len(bills_json.data) :
          bills_json.data[i]["stage"] = Unknown
              => bills_json.data[i]["ilgaFetchedAt"] = EmptyStr

\* both catalogued items had a stage; the fetch of one failed, the document
\* of the other did not parse, and both keep their stage
C27_Witness ==
    /\ pc = "base" /\ Len(results) = Len(BILLS)
    /\ calls[1].xml_bytes = NoBytes /\ calls[2].xml_bytes = Garbage
    /\ \A r \in Reconciled :
          HasKnownStage(r.prev) /\ r.out["stage"] = r.prev["stage"]

\* ------------------------------------------------------------------------
\* the catalogued items reconciled so far from a document that parsed, and
\* those whose fetch or parse failed
SucceededItems == { i \in 1..Len(results) : Succeeded(calls[i]) }
FailedItems == { i \in 1..Len(results) : ~Succeeded(calls[i]) }

\* the item has a record in the previous data
HasPrevious(i) == BILLS[i]["billNumber"] \in DOMAIN prev_data

\* C28: a catalogued item whose fetch or parse fails is never counted in
\* the changed count, whether or not it has a previous record: the count
\* is the number of changed items among those that succeeded.
C28_FailuresNeverCounted ==
    pc = "base" => changed = Cardinality(ChangedItems \cap SucceededItems)

\* C28 as the code has it: a catalogued item whose fetch or parse fails is
\* not counted when it has a previous record, and is counted when it has
\* none (its stage "Unknown" and its empty last action differ from the
\* absent ones); the count is the number of changed items that succeeded
\* plus the number of failed items without a previous record.
C28_FailuresCountedIffNoPrevious ==
    pc = "base" =>
        /\ \A i \in FailedItems : i \in ChangedItems <=> ~HasPrevious(i)
        /\ changed = Cardinality(ChangedItems \cap SucceededItems)
                      + Cardinality({ i \in FailedItems : ~HasPrevious(i) })

\* a batch over a written bills.json where both fetches failed and nothing
\* is counted
C28_Witness ==
    /\ pc = "base" /\ Len(results) = Len(BILLS)
    /\ FailedItems = 1..Len(BILLS)
    /\ \A i \in FailedItems : HasPrevious(i)
    /\ changed = 0

\* ------------------------------------------------------------------------
\* the inferred fields that depend on the document alone
DocumentKeys == InferredKeys \ { "ilgaFetchedAt", "stageChangedAt" }

\* the record read back is what a successful fetch of the same document
\* has written: it has a fetch timestamp, and its fields are those the
\* document gives
SameDocumentBefore(bill, prev, call) ==
    /\ Succeeded(call)
    /\ Truthy(Get(prev, "ilgaFetchedAt"))
    /\ Truthy(Get(prev, "stageChangedAt"))
    /\ LET fields == ilga_fields_from_xml(call.xml_bytes, bill["billNumber"], None, None,
                                          prev["ilgaFetchedAt"]).value
       IN  \A k \in DocumentKeys : prev[k] = fields[k]

\* C30: when a run fetches and parses, for an item, the document the run
\* that wrote the item's record had fetched and parsed, the record it
\* produces equals that record in every field except ilgaFetchedAt, which
\* is the time of the run, and a catalogued item is not counted as changed.
C30_RerunIdempotent ==
    /\ \A i \in 1..Len(results) :
          LET prev == PrevOf(prev_data, BILLS[i]["billNumber"])
          IN  SameDocumentBefore(BILLS[i], prev, calls[i])
                  => /\ \A k \in Keys \ { "ilgaFetchedAt" } : results[i][k] = prev[k]
                     /\ results[i]["ilgaFetchedAt"] = calls[i].fetched_at
                     /\ i \notin ChangedItems
                     /\ changed <= Len(results) - 1
    /\ \A j \in 1..Len(updated) :
          SameDocumentBefore(user_bills[j], user_bills[j], user_calls[j])
              => /\ \A k \in Keys \ { "ilgaFetchedAt" } : updated[j][k] = user_bills[j][k]
                 /\ updated[j]["ilgaFetchedAt"] = user_calls[j].fetched_at

\* the first catalogued item was fetched in second 1 and again, with the
\* same document, in second 2: only the fetch timestamp has moved
C30_Witness ==
    /\ pc = "base" /\ Len(results) >= 1
    /\ SameDocumentBefore(BILLS[1], PrevOf(prev_data, BILLS[1]["billNumber"]), calls[1])
    /\ prev_data[BILLS[1]["billNumber"]]["ilgaFetchedAt"] = Strftime(1)
    /\ prev_data[BILLS[1]["billNumber"]]["stageChangedAt"] = Strftime(1)
    /\ results[1]["ilgaFetchedAt"] = Strftime(2)
    /\ results[1]["stageChangedAt"] = Strftime(1)
    /\ changed = 0

====
